---- MODULE Spec2Model ----
(***************************************************************************)
(* Execution runtime of the synthetic-app simulator:                       *)
(*   core/errors/simulator.py  ErrorSimulator  (rate limits, fault flags,  *)
(*                                              probabilistic faults)      *)
(*   core/state/engine.py      StateEngine     (per-app object store)      *)
(*   core/app_runtime.py       AppRuntime      (execute_action pipeline)   *)
(*                                                                         *)
(* Clock readings (time.time(), datetime.now()) are whole seconds.  Python *)
(* None is -1 for numbers and the record NoFault / the object NoObj for    *)
(* dictionaries.  A dictionary key that is absent maps to Absent.          *)
(***************************************************************************)
EXTENDS Integers, Sequences, FiniteSets, TLC

\* ------------------------------------------------------------------ bounds
Step == 5           \* seconds between two close clock readings
MaxLog == 2         \* request-log entries kept per app
MaxLimit == 2       \* largest requests_per_min / burst_limit configured
MaxObjs == 2        \* objects created over a run
MaxSubs == 2        \* callbacks subscribed over a run
MaxTrig == 2        \* triggers registered at a time

\* --------------------------------------------------------------- constants
RateWindow == 60    \* simulator.py:62
BurstWindow == 10   \* simulator.py:66
ProbCap == 9500     \* simulator.py:208 (0.95 in 1/10000)
ProbOne == 10000    \* probability 1.0 in 1/10000
None == -1
Absent == -1

\* Every app name the engines hold state for, and the apps that the
\* operations of a specification are called on.
Apps == {"A", "B"}
Callers == {"A"}

\* The threads that call into the engines, and a callback that reads the
\* object of its event back from the store
Threads == {1, 2}
Reenters == "reenters"

\* The clock readings a run passes through: around the 10 s and the 60 s
\* boundary.
ClockValues == {0, Step, BurstWindow, RateWindow, RateWindow + Step}

\* The clock readings of a run of the action pipeline
RunClock == {0, RateWindow + Step}

\* The rate profiles configured: requests_per_min, burst_limit
LimitPairs == {<<0, 0>>, <<1, 1>>, <<MaxLimit, 1>>, <<MaxLimit, MaxLimit>>}

\* Object types, the keys an object can carry, and the values callers pass
Types == {"tasks"}
FieldNames == {"id", "created_at", "updated_at", "title"}
TitleVals == {7}
ForeignId == 99     \* an id string that is no uuid of the store

\* The events the store propagates, the keys listeners subscribe under
\* (f"{app_name}:{event_type}"), and the two kinds of callback: one that
\* returns and one that raises an Exception.
EventTypes == {"create", "update", "delete", "state_change", "state_update",
               "shared_object_created"}
EventKeys == (Apps \cup {"global"}) \X EventTypes
Callbacks == {"ok", "raises"}
SharedKeys == {"k"}

\* The keys callbacks are subscribed under, and the value a client stores
\* in a shared slot
SubKeys == {<<"A", "create">>, <<"A", "state_change">>,
            <<"global", "shared_object_created">>}
SharedVals == {7}

\* set_chaos_mode levels, in 1/100
ChaosLevels == {0}

\* update_error_profile arguments: one kind and its probability
ProfileUpdates == {[kind |-> "server_error", p |-> ProbOne]}

\* The rate profiles of the App definitions (RateLimitProfile,
\* models.py:61-62: both fields are >= 1)
AppProfiles == {l \in LimitPairs : l[1] = MaxLimit /\ l[2] >= 1}

\* The actions the App definitions list, and a name they do not list
AppActions ==
    {"create_task", "update_task", "delete_task", "get_task", "list_tasks", "ping"}
ActionNames == AppActions \cup {"nope"}

\* Actions of an App definition whose names carry the keywords of two classes
MixedActions ==
    {"get_updated_task", "remove_added_task", "fetch_deleted_task",
     "list_fetched_tasks", "get_address_task"}
KnownActions == AppActions \cup MixedActions

Max(a, b) == IF a >= b THEN a ELSE b
Min(a, b) == IF a <= b THEN a ELSE b

\* ------------------------------------------------------------- fault kinds
\* ErrorType members (models.py:10-20)
ErrorType ==
    {"rate_limit", "auth_expired", "network_unreachable", "schema_error",
     "partial_failure", "data_inconsistency", "invalid_input", "server_error",
     "auth_error"}

\* The baseline probability table, in dictionary order (simulator.py:19-28
\* and 197-206), probabilities in 1/10000.
base_profile ==
    << [kind |-> "rate_limit",          p |-> 500],
       [kind |-> "auth_expired",        p |-> 200],
       [kind |-> "network_unreachable", p |-> 300],
       [kind |-> "schema_error",        p |-> 800],
       [kind |-> "partial_failure",     p |-> 400],
       [kind |-> "data_inconsistency",  p |-> 200],
       [kind |-> "invalid_input",       p |-> 1000],
       [kind |-> "server_error",        p |-> 200] >>

\* An error dictionary.  details / retry_key say whether the keys "details"
\* and "retry_after" are present; retry_after = None is Python None.
Fault(type, message, details, retry_key, retry_after) ==
    [type |-> type, message |-> message, details |-> details,
     retry_key |-> retry_key, retry_after |-> retry_after]

NoFault == Fault("none", "", FALSE, FALSE, None)

\* _generate_error: a fixed payload per kind, "Unknown error" for the kinds
\* the table does not list.
_generate_error(kind) ==
    CASE kind = "schema_error" ->
           Fault(kind, "Invalid input schema", TRUE, TRUE, None)
      [] kind = "partial_failure" ->
           Fault(kind, "Partial failure in operation", TRUE, TRUE, None)
      [] kind = "data_inconsistency" ->
           Fault(kind, "Data inconsistency detected", TRUE, TRUE, None)
      [] kind = "invalid_input" ->
           Fault(kind, "Invalid input provided", TRUE, TRUE, None)
      [] kind = "server_error" ->
           Fault(kind, "Internal server error", TRUE, TRUE, 5)
      [] OTHER ->
           Fault(kind, "Unknown error", TRUE, TRUE, None)

\* ------------------------------------------------------------------- state
VARIABLES
    now,             \* the wall clock, in seconds
    error_profile,   \* ErrorSimulator.error_profile, in dictionary order
    request_counts,  \* ErrorSimulator.request_counts: app -> timestamps
    rate_limits,     \* ErrorSimulator.rate_limits: app -> profile
    auth_states,     \* ErrorSimulator.auth_states: "unset" | "true" | "false"
    network_states,  \* ErrorSimulator.network_states, likewise
    recorded,        \* history: every timestamp record_request appended
    limited,         \* history: apps whose rate check reported "exceeded"
    app_states,      \* StateEngine.app_states: app -> type -> objects
    next_uuid,       \* the uuid4 values handed out so far are 1..next_uuid-1
    event_listeners, \* StateEngine.event_listeners: key -> callbacks, in order
    shared_objects,  \* StateEngine.shared_objects: key -> value
    snapshot,        \* the mapping a client holds from get_app_state
    thr,             \* per thread: the call it is in and what it has read
    lock,            \* StateEngine.lock: the owning thread and its hold count
    shadow,          \* history: app_states had every store call run at once
    triggers,        \* TriggerSystem.triggers, in dictionary order
    webhook_endpoints, \* the trigger ids TriggerSystem.webhook_endpoints holds
    running,         \* TriggerSystem.running
    poll,            \* where the start_polling coroutine is
    call,            \* the execute_action call suspended in asyncio.sleep
    last             \* the operation that ran last, its arguments and result

simVars == <<error_profile, request_counts, rate_limits, auth_states,
             network_states, recorded, limited>>

storeVars == <<app_states, next_uuid>>

lockVars == <<thr, lock, shadow>>

trigVars == <<triggers, webhook_endpoints, running, poll>>

hubVars == <<event_listeners, shared_objects, snapshot, lockVars, trigVars>>

vars == <<now, error_profile, request_counts, rate_limits, auth_states,
          network_states, recorded, limited, app_states, next_uuid,
          event_listeners, shared_objects, snapshot, thr, lock, shadow,
          triggers, webhook_endpoints, running, poll, call, last>>

\* An object is a dictionary over FieldNames; NoObj is None.
NoObj == [f \in FieldNames |-> Absent]

NoLimits == [set |-> FALSE, requests_per_min |-> 0, burst_limit |-> 0]

\* what get_app_state returns for an app without collections, and the
\* return values a store call is expected to have
NoView == [t \in Types |-> [present |-> FALSE, objs |-> << >>]]
NoWant == [ok |-> FALSE, obj |-> NoObj, view |-> NoView]

\* No trigger id, and the polling loop that is not running
NoTrigId == <<"", "", 0>>
NoPoll == [pc |-> "idle", since |-> 0]

NoLast ==
    [op |-> "init", app |-> "", fault |-> NoFault, raised |-> FALSE,
     exceeded |-> FALSE,
     type |-> "", id |-> None, data |-> NoObj, ok |-> FALSE, obj |-> NoObj,
     action |-> "", success |-> FALSE, status |-> "",
     level |-> None, decided |-> NoFault, fired |-> << >>, invoked |-> << >>,
     draws |-> << >>, used |-> 0,
     by |-> 0, nested |-> FALSE, view |-> NoView, want |-> NoWant,
     given |-> FALSE, limit |-> 0, results |-> << >>, count |-> 0,
     kept |-> None, trig |-> NoTrigId, calls |-> 0]

NoCall == [pc |-> "idle", app |-> "", action |-> ""]

\* A thread outside every call, and the lock nobody holds
NoThread ==
    [pc |-> "idle", op |-> "", app |-> "", type |-> "", id |-> None, data |-> NoObj,
     seen |-> 0, pending |-> << >>, stale |-> FALSE, ok |-> FALSE, obj |-> NoObj,
     view |-> NoView, want |-> NoWant]
NoLock == [owner |-> 0, count |-> 0]

\* ---------------------------------------------------------- ErrorSimulator
\* CleanOld keeping a timestamp that is exactly 60 s old
CleanOld_inclusive(log, t) == SelectSeq(log, LAMBDA ts : t - ts <= RateWindow)

\* check_rate_limit, line 60-63: drop the timestamps 60 s old or older
CleanOld(log, t) == SelectSeq(log, LAMBDA ts : t - ts < RateWindow)

\* recent_requests leaving out the request recorded last
recent_requests_earlier(log, t) ==
    SelectSeq(SubSeq(log, 1, Len(log) - 1), LAMBDA ts : t - ts < BurstWindow)

\* check_rate_limit, line 66: the timestamps of the trailing 10 s
recent_requests(log, t) == SelectSeq(log, LAMBDA ts : t - ts < BurstWindow)

\* The log check_rate_limit leaves behind: cleaned when the app has a rate
\* profile, untouched otherwise (early return at line 53-54).
LogAfterCheck(lims, log, t) == IF lims.set THEN CleanOld(log, t) ELSE log

\* check_rate_limit comparing the burst count with > instead of >=
check_rate_limit_strict(lims, log, t) ==
    /\ lims.set
    /\ \/ Len(recent_requests(CleanOld(log, t), t)) > lims.burst_limit
       \/ Len(CleanOld(log, t)) >= lims.requests_per_min

\* check_rate_limit's return value
check_rate_limit(lims, log, t) ==
    /\ lims.set
    /\ \/ Len(recent_requests(CleanOld(log, t), t)) >= lims.burst_limit
       \/ Len(CleanOld(log, t)) >= lims.requests_per_min

\* min() of a non-empty list of timestamps
ListMin(log) == CHOOSE m \in {log[i] : i \in 1..Len(log)} :
                    \A i \in 1..Len(log) : m <= log[i]

\* int(60 - (time.time() - oldest)), line 107 and 116.  The clock is read a
\* second time here; late says that a fraction of a second has passed since
\* the reading of check_rate_limit, and int() truncates toward zero.
RetryAfter(oldest, t, late) ==
    LET whole == RateWindow - (t - oldest)
        trunc == IF late /\ whole >= 1 THEN whole - 1 ELSE whole
    IN  Max(0, trunc)

\* What simulate_error hands back: a fault (NoFault for None) or an
\* exception, and whether check_rate_limit reported the limit exceeded.
Returned(f, ex) == [fault |-> f, raised |-> FALSE, exceeded |-> ex]
Raised(ex) == [fault |-> NoFault, raised |-> TRUE, exceeded |-> ex]

\* random.random() lies in [0, 1): the smallest and the largest draw, in
\* 1/10000.  A kind fires when the draw is below its probability.
Draws == {0, ProbOne - 1}

\* Walk firing a kind when the draw equals its probability as well
RECURSIVE Walk_inclusive(_, _)
Walk_inclusive(profile, i) ==
    IF i > Len(profile) THEN {Returned(NoFault, FALSE)}
    ELSE UNION { IF r <= profile[i].p
                   THEN IF profile[i].kind \in ErrorType
                          THEN {Returned(_generate_error(profile[i].kind), FALSE)}
                          ELSE {Raised(FALSE)}
                   ELSE Walk_inclusive(profile, i + 1) : r \in Draws }

\* simulate_error, line 120-125: walk the table in order, one draw per kind;
\* ErrorType(kind) raises ValueError for a kind that is no member.
RECURSIVE Walk(_, _)
Walk(profile, i) ==
    IF i > Len(profile) THEN {Returned(NoFault, FALSE)}
    ELSE UNION { IF r < profile[i].p
                   THEN IF profile[i].kind \in ErrorType
                          THEN {Returned(_generate_error(profile[i].kind), FALSE)}
                          ELSE {Raised(FALSE)}
                   ELSE Walk(profile, i + 1) : r \in Draws }

\* simulate_error running the rate check before the two deterministic flags
simulate_error_rate_first(net, auth, lims, log, profile, t) ==
    IF check_rate_limit(lims, log, t) /\ CleanOld(log, t) # << >>
      THEN {Returned(Fault("rate_limit", "Rate limit exceeded", TRUE, TRUE,
                           RetryAfter(ListMin(CleanOld(log, t)), t, late)),
                     TRUE) : late \in BOOLEAN}
    ELSE IF net = "false"
      THEN {Returned(Fault("network_unreachable", "Network unreachable",
                           TRUE, TRUE, None), FALSE)}
    ELSE IF auth = "false"
      THEN {Returned(Fault("auth_expired", "Authentication expired",
                           TRUE, TRUE, None), FALSE)}
    ELSE Walk(profile, 1)

\* simulate_error: the set of results it can produce in the current state
simulate_error(net, auth, lims, log, profile, t) ==
    IF net = "false"
      THEN {Returned(Fault("network_unreachable", "Network unreachable",
                           TRUE, TRUE, None), FALSE)}
    ELSE IF auth = "false"
      THEN {Returned(Fault("auth_expired", "Authentication expired",
                           TRUE, TRUE, None), FALSE)}
    ELSE IF check_rate_limit(lims, log, t)
      THEN IF CleanOld(log, t) = << >>
             THEN {Raised(TRUE)}    \* min() of an empty list: ValueError
             ELSE {Returned(Fault("rate_limit", "Rate limit exceeded", TRUE, TRUE,
                                  RetryAfter(ListMin(CleanOld(log, t)), t, late)),
                            TRUE) : late \in BOOLEAN}
    ELSE Walk(profile, 1)

\* The request log simulate_error leaves behind: check_rate_limit runs only
\* when neither deterministic flag returned first.
LogAfterSimulate(net, auth, lims, log, t) ==
    IF net = "false" \/ auth = "false" THEN log ELSE LogAfterCheck(lims, log, t)


\* -------------------------------------------------------------- StateEngine
\* app_states[a]: whether the app has an entry, and per type whether the
\* collection exists and the list of its objects.
NoColl == [present |-> FALSE, objs |-> << >>]
NoAppState == [present |-> FALSE, colls |-> [t \in Types |-> NoColl]]

\* app_states[app].get(object_type, [])
Objects(st, a, t) == st[a].colls[t].objs

\* create_object, line 52-56: {"id": obj_id, "created_at": now, **data};
\* the keys of data come last and win.
NewObject(uuid, t, data) ==
    [f \in FieldNames |->
        IF data[f] # Absent THEN data[f]
        ELSE IF f = "id" THEN uuid
        ELSE IF f = "created_at" THEN t
        ELSE Absent]

\* FindFirst taking the head of the collection for a match, whatever its id
FindFirst_any(objs, id) == IF objs # << >> THEN 1 ELSE 0

\* the position of the first object with obj.get("id") == obj_id, 0 for none
\* (the loops at line 67-69, 78-79 and 92-93)
FindFirst(objs, id) ==
    IF \E i \in 1..Len(objs) : objs[i]["id"] = id
      THEN CHOOSE i \in 1..Len(objs) :
               /\ objs[i]["id"] = id
               /\ \A j \in 1..(i - 1) : objs[j]["id"] # id
      ELSE 0

\* Merged replacing the object by the updates instead of merging them
Merged_replace(obj, updates, t) ==
    [f \in FieldNames |-> IF f = "updated_at" THEN t ELSE updates[f]]

\* update_object, line 80-81: obj.update(updates), then the stamp
Merged(obj, updates, t) ==
    [f \in FieldNames |->
        IF f = "updated_at" THEN t
        ELSE IF updates[f] # Absent THEN updates[f]
        ELSE obj[f]]

\* the collection after update_object: the first match is merged in place
UpdatedObjects(objs, id, updates, t) ==
    LET i == FindFirst(objs, id)
    IN  IF i = 0 THEN objs ELSE [objs EXCEPT ![i] = Merged(objs[i], updates, t)]

\* the collection after delete_object: objects.pop(i) of the first match
RemoveAt(objs, i) ==
    [j \in 1..(Len(objs) - 1) |-> IF j < i THEN objs[j] ELSE objs[j + 1]]

\* read_object's return value: a copy of the first match, None for none
read_object(st, a, t, id) ==
    IF ~st[a].present THEN NoObj
    ELSE LET objs == Objects(st, a, t)
             i == FindFirst(objs, id)
         IN  IF i = 0 THEN NoObj ELSE objs[i]

\* _propagate_event letting the first Exception end the loop
_propagate_event_abort(listeners, a, e) ==
    LET l == listeners[<<a, e>>]
        stop == IF \E i \in 1..Len(l) : l[i] = "raises"
                  THEN CHOOSE i \in 1..Len(l) :
                           l[i] = "raises" /\ \A j \in 1..(i - 1) : l[j] # "raises"
                  ELSE Len(l)
    IN  [i \in 1..stop |-> [cb |-> l[i], caught |-> FALSE]]

\* _propagate_event, line 117-122: the callbacks under the key are called in
\* order; an Exception of one is caught and printed, the loop goes on.
_propagate_event(listeners, a, e) ==
    [i \in 1..Len(listeners[<<a, e>>]) |->
        [cb |-> listeners[<<a, e>>][i], caught |-> listeners[<<a, e>>][i] = "raises"]]

\* One call of _propagate_event as the operation's record keeps it: the
\* key, and the size of the collection at the moment of the call.
Event(a, e, size) == [app |-> a, type |-> e, size |-> size]

\* What a client holds after get_app_state: nothing at first
NoSnapshot == [held |-> FALSE, app |-> "", aliased |-> [t \in Types |-> FALSE]]

\* app_states after create_object
Created(st, a, t, obj) ==
    [st EXCEPT ![a] = [present |-> TRUE,
                       colls |-> [st[a].colls EXCEPT ![t] =
                                    [present |-> TRUE, objs |-> Append(@.objs, obj)]]]]

Init ==
    /\ now = 0
    /\ error_profile = base_profile
    /\ request_counts = [a \in Apps |-> << >>]
    /\ rate_limits = [a \in Apps |-> NoLimits]
    /\ auth_states = [a \in Apps |-> "unset"]
    /\ network_states = [a \in Apps |-> "unset"]
    /\ recorded = [a \in Apps |-> << >>]
    /\ limited = {}
    /\ app_states = [a \in Apps |-> NoAppState]
    /\ next_uuid = 1
    /\ event_listeners = [k \in EventKeys |-> << >>]
    /\ shared_objects = [k \in SharedKeys |-> Absent]
    /\ snapshot = NoSnapshot
    /\ thr = [th \in Threads |-> NoThread]
    /\ lock = NoLock
    /\ shadow = [a \in Apps |-> NoAppState]
    /\ triggers = << >>
    /\ webhook_endpoints = {}
    /\ running = FALSE
    /\ poll = NoPoll
    /\ call = NoCall
    /\ last = NoLast

\* the clock advances
Tick(t) ==
    /\ t > now
    /\ now' = t
    /\ last' = [NoLast EXCEPT !.op = "tick"]
    /\ UNCHANGED <<hubVars, simVars, storeVars, call>>

\* Configure starting the app's request log afresh
Configure_reset(limits, counts, a, n, b) ==
    [limits |-> [limits EXCEPT ![a] =
                    [set |-> TRUE, requests_per_min |-> n, burst_limit |-> b]],
     counts |-> [counts EXCEPT ![a] = << >>]]

\* configure_rate_limit, line 36-41: the profile of the app is replaced; a
\* log is created empty only for an app that has none, which the model
\* holds as the empty list already.
Configure(limits, counts, a, n, b) ==
    [limits |-> [limits EXCEPT ![a] =
                    [set |-> TRUE, requests_per_min |-> n, burst_limit |-> b]],
     counts |-> counts]

configure_rate_limit(a, n, b) ==
    /\ rate_limits' = Configure(rate_limits, request_counts, a, n, b).limits
    /\ request_counts' = Configure(rate_limits, request_counts, a, n, b).counts
    /\ last' = [NoLast EXCEPT !.op = "configure_rate_limit", !.app = a]
    /\ UNCHANGED <<hubVars, now, error_profile, auth_states, network_states,
                   recorded, limited, storeVars, call>>

set_auth_state(a, v) ==
    /\ auth_states' = [auth_states EXCEPT ![a] = v]
    /\ last' = [NoLast EXCEPT !.op = "set_auth_state", !.app = a]
    /\ UNCHANGED <<hubVars, now, error_profile, request_counts, rate_limits, network_states,
                   recorded, limited, storeVars, call>>

set_network_state(a, v) ==
    /\ network_states' = [network_states EXCEPT ![a] = v]
    /\ last' = [NoLast EXCEPT !.op = "set_network_state", !.app = a]
    /\ UNCHANGED <<hubVars, now, error_profile, request_counts, rate_limits, auth_states,
                   recorded, limited, storeVars, call>>

\* record_request appending to one log all apps share
record_request_shared(a) ==
    /\ Len(request_counts[a]) < MaxLog
    /\ request_counts' = [b \in Apps |-> Append(request_counts[b], now)]
    /\ recorded' = [recorded EXCEPT ![a] = Append(@, now)]
    /\ last' = [NoLast EXCEPT !.op = "record_request", !.app = a]
    /\ UNCHANGED <<hubVars, now, error_profile, rate_limits, auth_states, network_states,
                   limited, storeVars, call>>

record_request(a) ==
    /\ Len(request_counts[a]) < MaxLog
    /\ request_counts' = [request_counts EXCEPT ![a] = Append(@, now)]
    /\ recorded' = [recorded EXCEPT ![a] = Append(@, now)]
    /\ last' = [NoLast EXCEPT !.op = "record_request", !.app = a]
    /\ UNCHANGED <<hubVars, now, error_profile, rate_limits, auth_states, network_states,
                   limited, storeVars, call>>

\* a direct call of simulate_error (decide)
Decide(a) ==
    /\ \E r \in simulate_error(network_states[a], auth_states[a], rate_limits[a],
                               request_counts[a], error_profile, now) :
          /\ last' = [NoLast EXCEPT !.op = "simulate_error", !.app = a,
                                    !.fault = r.fault, !.raised = r.raised,
                                    !.exceeded = r.exceeded]
          /\ limited' = IF r.exceeded /\ ~r.raised THEN limited \cup {a} ELSE limited
    /\ request_counts' = [request_counts EXCEPT ![a] =
           LogAfterSimulate(network_states[a], auth_states[a], rate_limits[a], @, now)]
    /\ UNCHANGED <<hubVars, now, error_profile, rate_limits, auth_states, network_states,
                   recorded, storeVars, call>>

\* dict.update of one entry: an existing key keeps its place, a new key
\* goes to the end
DictUpdate(profile, e) ==
    IF \E i \in 1..Len(profile) : profile[i].kind = e.kind
      THEN [i \in 1..Len(profile) |->
               IF profile[i].kind = e.kind THEN e ELSE profile[i]]
      ELSE Append(profile, e)

update_error_profile(e) ==
    /\ error_profile' = DictUpdate(error_profile, e)
    /\ last' = [NoLast EXCEPT !.op = "update_error_profile"]
    /\ UNCHANGED <<hubVars, now, request_counts, rate_limits, auth_states, network_states,
                   recorded, limited, storeVars, call>>

\* ScaledProfile scaling the active table instead of the baseline
ScaledProfile_compound(level) ==
    [i \in 1..Len(error_profile) |->
        [kind |-> error_profile[i].kind,
         p |-> Min(ProbCap, (error_profile[i].p * level) \div 100)]]

\* set_chaos_mode, line 207-210: min(0.95, v * chaos_level) for every entry
\* of the baseline table; level is in 1/100
ScaledProfile(level) ==
    [i \in 1..Len(base_profile) |->
        [kind |-> base_profile[i].kind,
         p |-> Min(ProbCap, (base_profile[i].p * level) \div 100)]]

set_chaos_mode(level) ==
    /\ error_profile' = ScaledProfile(level)
    /\ last' = [NoLast EXCEPT !.op = "set_chaos_mode", !.level = level]
    /\ UNCHANGED <<hubVars, now, request_counts, rate_limits, auth_states, network_states,
                   recorded, limited, storeVars, call>>

NextRate ==
    \/ \E t \in ClockValues : Tick(t)
    \/ \E a \in Callers, l \in LimitPairs : configure_rate_limit(a, l[1], l[2])
    \/ \E a \in Callers, v \in {"true", "false"} : set_auth_state(a, v)
    \/ \E a \in Callers, v \in {"true", "false"} : set_network_state(a, v)
    \/ \E a \in Callers : record_request(a)
    \/ \E a \in Callers : Decide(a)
    \/ \E e \in ProfileUpdates : update_error_profile(e)
    \/ \E l \in ChaosLevels : set_chaos_mode(l)

SpecRate == Init /\ [][NextRate]_vars

\* ------------------------------------------------- StateEngine operations
create_object(a, t, data) ==
    /\ next_uuid <= MaxObjs
    /\ app_states' = Created(app_states, a, t, NewObject(next_uuid, now, data))
    /\ next_uuid' = next_uuid + 1
    /\ last' = [NoLast EXCEPT !.op = "create_object", !.app = a, !.type = t,
                              !.data = data, !.id = next_uuid, !.ok = TRUE,
                              !.fired = <<Event(a, "create",
                                    Len(Objects(app_states, a, t)) + 1)>>,
                              !.invoked = _propagate_event(event_listeners, a, "create")]
    /\ UNCHANGED <<hubVars, now, simVars, call>>

ReadObject(a, t, id) ==
    /\ last' = [NoLast EXCEPT !.op = "read_object", !.app = a, !.type = t,
                              !.id = id, !.obj = read_object(app_states, a, t, id),
                              !.ok = (read_object(app_states, a, t, id) # NoObj)]
    /\ UNCHANGED <<hubVars, now, simVars, storeVars, call>>

update_object(a, t, id, updates) ==
    LET found == app_states[a].present /\ FindFirst(Objects(app_states, a, t), id) # 0
    IN  /\ app_states' =
              IF found
                THEN [app_states EXCEPT ![a].colls[t].objs =
                          UpdatedObjects(@, id, updates, now)]
                ELSE app_states
        /\ last' = [NoLast EXCEPT !.op = "update_object", !.app = a, !.type = t,
                                  !.id = id, !.data = updates, !.ok = found,
                                  !.fired = IF found
                                      THEN <<Event(a, "update",
                                               Len(Objects(app_states, a, t)))>>
                                      ELSE << >>,
                                  !.invoked = IF found
                                      THEN _propagate_event(event_listeners, a, "update")
                                      ELSE << >>]
        /\ UNCHANGED <<hubVars, now, simVars, next_uuid, call>>

delete_object(a, t, id) ==
    LET found == app_states[a].present /\ FindFirst(Objects(app_states, a, t), id) # 0
    IN  /\ app_states' =
              IF found
                THEN [app_states EXCEPT ![a].colls[t].objs =
                          RemoveAt(@, FindFirst(@, id))]
                ELSE app_states
        /\ last' = [NoLast EXCEPT !.op = "delete_object", !.app = a, !.type = t,
                                  !.id = id, !.ok = found,
                                  !.fired = IF found
                                      THEN <<Event(a, "delete",
                                               Len(Objects(app_states, a, t)) - 1)>>
                                      ELSE << >>,
                                  !.invoked = IF found
                                      THEN _propagate_event(event_listeners, a, "delete")
                                      ELSE << >>]
        /\ UNCHANGED <<hubVars, now, simVars, next_uuid, call>>

\* The ids a caller can name: a uuid the store has handed out, or a string
\* of its own.
KnownIds == (1..(next_uuid - 1)) \cup {ForeignId}

\* The field mappings a caller passes
Payloads ==
    {[f \in FieldNames |->
         IF f = "id" THEN i ELSE IF f = "title" THEN v ELSE Absent] :
       i \in KnownIds \cup {Absent}, v \in TitleVals \cup {Absent}}

NextStore ==
    \/ \E a \in Callers, t \in Types, d \in Payloads : create_object(a, t, d)
    \/ \E a \in Callers, t \in Types, i \in KnownIds : ReadObject(a, t, i)
    \/ \E a \in Callers, t \in Types, i \in KnownIds, d \in Payloads :
          update_object(a, t, i, d)
    \/ \E a \in Callers, t \in Types, i \in KnownIds : delete_object(a, t, i)

SpecStore == Init /\ [][NextStore]_vars


\* ------------------------------------------- StateEngine: events and copies
\* the callbacks subscribed so far, over all keys
Subscribed == LET RECURSIVE Sum(_)
                  Sum(K) == IF K = {} THEN 0
                            ELSE LET k == CHOOSE x \in K : TRUE
                                 IN  Len(event_listeners[k]) + Sum(K \ {k})
              IN  Sum(EventKeys)

\* subscribe_event: the callback goes to the end of the key's list
subscribe_event(a, e, cb) ==
    /\ Subscribed < MaxSubs
    /\ event_listeners' = [event_listeners EXCEPT ![<<a, e>>] = Append(@, cb)]
    /\ last' = [NoLast EXCEPT !.op = "subscribe_event", !.app = a]
    /\ UNCHANGED <<trigVars, now, simVars, storeVars, shared_objects, snapshot, lockVars, call>>

\* set_app_state: the value (a list of objects here) replaces what the key
\* held; the event is propagated after the assignment.
set_app_state(a, t, value) ==
    /\ app_states' = [app_states EXCEPT ![a] =
           [present |-> TRUE,
            colls |-> [@.colls EXCEPT ![t] = [present |-> TRUE, objs |-> value]]]]
    /\ snapshot' = IF snapshot.app = a
                     THEN [snapshot EXCEPT !.aliased[t] = FALSE]
                     ELSE snapshot
    /\ last' = [NoLast EXCEPT !.op = "set_app_state", !.app = a, !.type = t,
                              !.ok = TRUE,
                              !.fired = <<Event(a, "state_change", Len(value))>>,
                              !.invoked = _propagate_event(event_listeners, a,
                                                           "state_change")]
    /\ UNCHANGED <<trigVars, now, simVars, next_uuid, event_listeners, shared_objects, lockVars, call>>

\* update_app_state: dict.update with a mapping that names the type or is
\* empty
update_app_state(a, t, given, value) ==
    /\ app_states' = [app_states EXCEPT ![a] =
           [present |-> TRUE,
            colls |-> IF given
                        THEN [@.colls EXCEPT ![t] = [present |-> TRUE, objs |-> value]]
                        ELSE @.colls]]
    /\ snapshot' = IF snapshot.app = a /\ given
                     THEN [snapshot EXCEPT !.aliased[t] = FALSE]
                     ELSE snapshot
    /\ last' = [NoLast EXCEPT !.op = "update_app_state", !.app = a, !.type = t,
                              !.ok = TRUE,
                              !.fired = <<Event(a, "state_update",
                                    IF given THEN Len(value)
                                    ELSE Len(Objects(app_states, a, t)))>>,
                              !.invoked = _propagate_event(event_listeners, a,
                                                           "state_update")]
    /\ UNCHANGED <<trigVars, now, simVars, next_uuid, event_listeners, shared_objects, lockVars, call>>

create_shared_object(k, v) ==
    /\ shared_objects' = [shared_objects EXCEPT ![k] = v]
    /\ last' = [NoLast EXCEPT !.op = "create_shared_object", !.app = "global",
                              !.ok = TRUE,
                              !.fired = <<Event("global", "shared_object_created", 0)>>,
                              !.invoked = _propagate_event(event_listeners, "global",
                                                           "shared_object_created")]
    /\ UNCHANGED <<trigVars, now, simVars, storeVars, event_listeners, snapshot, lockVars, call>>

\* clear_app_state dropping the entry of every app
clear_app_state_all(a) ==
    /\ app_states' = [b \in Apps |-> NoAppState]
    /\ snapshot' = IF snapshot.app = a
                     THEN [snapshot EXCEPT !.aliased = [t \in Types |-> FALSE]]
                     ELSE snapshot
    /\ last' = [NoLast EXCEPT !.op = "clear_app_state", !.app = a,
                   !.ok = \E t \in Types : app_states[a].colls[t].present]
    /\ UNCHANGED <<trigVars, now, simVars, next_uuid, event_listeners, shared_objects, lockVars, call>>

\* clear_app_state: del app_states[app_name] when the app has an entry; no
\* call of _propagate_event.  last.ok tells that collections were dropped.
clear_app_state(a) ==
    /\ app_states' = [app_states EXCEPT ![a] = NoAppState]
    /\ snapshot' = IF snapshot.app = a
                     THEN [snapshot EXCEPT !.aliased = [t \in Types |-> FALSE]]
                     ELSE snapshot
    /\ last' = [NoLast EXCEPT !.op = "clear_app_state", !.app = a,
                   !.ok = \E t \in Types : app_states[a].colls[t].present]
    /\ UNCHANGED <<trigVars, now, simVars, next_uuid, event_listeners, shared_objects, lockVars, call>>

\* get_app_state: app_states[app_name].copy().  Indexing the defaultdict
\* gives an unknown app an empty entry; the copy is a new dictionary whose
\* values are the store's own lists.
get_app_state(a) ==
    /\ app_states' = [app_states EXCEPT ![a].present = TRUE]
    /\ snapshot' = [held |-> TRUE, app |-> a,
                    aliased |-> [t \in Types |-> app_states[a].colls[t].present]]
    /\ last' = [NoLast EXCEPT !.op = "get_app_state", !.app = a, !.ok = TRUE]
    /\ UNCHANGED <<trigVars, now, simVars, next_uuid, event_listeners, shared_objects, lockVars, call>>

\* The object a client puts into a list it holds
ClientObject ==
    [f \in FieldNames |-> IF f = "id" THEN ForeignId ELSE Absent]

\* The client changes the mapping get_app_state returned: it appends an
\* object to the list of a type, sets a field of the list's first object,
\* or removes the type from the mapping.  A list that is the store's own
\* list changes in the store as well; the mapping itself is the client's.
MutateReturned(t, how) ==
    /\ snapshot.held
    /\ LET a == snapshot.app
           objs == Objects(app_states, a, t)
       IN  /\ last' = [NoLast EXCEPT !.op = "mutate_returned", !.app = a, !.type = t]
           /\ CASE how = "append" ->
                     /\ Len(objs) < MaxObjs
                     /\ app_states' =
                          IF snapshot.aliased[t]
                            THEN [app_states EXCEPT ![a].colls[t].objs =
                                      Append(@, ClientObject)]
                            ELSE app_states
                     /\ UNCHANGED snapshot
                [] how = "edit" ->
                     /\ app_states' =
                          IF snapshot.aliased[t] /\ objs # << >>
                            THEN [app_states EXCEPT ![a].colls[t].objs[1]["title"] =
                                      Absent]
                            ELSE app_states
                     /\ UNCHANGED snapshot
                [] how = "remove_key" ->
                     /\ snapshot' = [snapshot EXCEPT !.aliased[t] = FALSE]
                     /\ UNCHANGED app_states
    /\ UNCHANGED <<trigVars, now, simVars, next_uuid, event_listeners, shared_objects, lockVars, call>>

\* The client sets a field of the object read_object returned: obj.copy()
\* is a dictionary of its own.
MutateReadResult ==
    /\ last.op = "read_object"
    /\ last.ok
    /\ last' = [NoLast EXCEPT !.op = "mutate_read_result", !.app = last.app,
                              !.type = last.type, !.id = last.id]
    /\ UNCHANGED <<now, simVars, storeVars, hubVars, call>>

\* the payloads of the two specifications below: a title, no id
PlainPayloads == {d \in Payloads : d["id"] = Absent /\ d["title"] # Absent}

NextEvents ==
    \/ \E k \in SubKeys, cb \in Callbacks : subscribe_event(k[1], k[2], cb)
    \/ \E a \in Callers, t \in Types, d \in PlainPayloads : create_object(a, t, d)
    \/ \E a \in Callers, t \in Types, i \in KnownIds, d \in PlainPayloads :
          update_object(a, t, i, d)
    \/ \E a \in Callers, t \in Types, i \in KnownIds : delete_object(a, t, i)
    \/ \E a \in Callers, t \in Types : set_app_state(a, t, << >>)
    \/ \E a \in Callers, t \in Types, g \in BOOLEAN : update_app_state(a, t, g, << >>)
    \/ \E k \in SharedKeys, v \in SharedVals : create_shared_object(k, v)
    \/ \E a \in Callers : clear_app_state(a)

SpecEvents == Init /\ [][NextEvents]_vars

NextCopy ==
    \/ \E a \in Callers, t \in Types, d \in PlainPayloads : create_object(a, t, d)
    \/ \E a \in Callers, t \in Types, i \in KnownIds : ReadObject(a, t, i)
    \/ \E a \in Callers, t \in Types, i \in KnownIds : delete_object(a, t, i)
    \/ \E a \in Callers : get_app_state(a)
    \/ \E t \in Types, how \in {"append", "edit", "remove_key"} : MutateReturned(t, how)
    \/ MutateReadResult
    \/ \E a \in Callers, t \in Types : set_app_state(a, t, << >>)
    \/ \E a \in Callers : clear_app_state(a)

SpecCopy == Init /\ [][NextCopy]_vars

\* The store with two apps, listeners and shared objects
NextClear ==
    \/ \E k \in SubKeys, cb \in Callbacks : subscribe_event(k[1], k[2], cb)
    \/ \E a \in Apps, t \in Types, d \in PlainPayloads : create_object(a, t, d)
    \/ \E a \in Apps, t \in Types, i \in KnownIds : delete_object(a, t, i)
    \/ \E a \in Apps, t \in Types : set_app_state(a, t, << >>)
    \/ \E k \in SharedKeys, v \in SharedVals : create_shared_object(k, v)
    \/ \E a \in Apps : clear_app_state(a)

SpecClear == Init /\ [][NextClear]_vars


\* --------------------------------------------------------------- AppRuntime
\* The characters of the action names and of the keywords
Spelling(w) ==
    CASE w = "create_task" -> <<"c", "r", "e", "a", "t", "e", "_", "t", "a", "s", "k">>
      [] w = "update_task" -> <<"u", "p", "d", "a", "t", "e", "_", "t", "a", "s", "k">>
      [] w = "delete_task" -> <<"d", "e", "l", "e", "t", "e", "_", "t", "a", "s", "k">>
      [] w = "get_task" -> <<"g", "e", "t", "_", "t", "a", "s", "k">>
      [] w = "list_tasks" -> <<"l", "i", "s", "t", "_", "t", "a", "s", "k", "s">>
      [] w = "ping" -> <<"p", "i", "n", "g">>
      [] w = "nope" -> <<"n", "o", "p", "e">>
      [] w = "get_updated_task" -> <<"g", "e", "t", "_", "u", "p", "d", "a", "t", "e", "d", "_", "t", "a", "s", "k">>
      [] w = "remove_added_task" -> <<"r", "e", "m", "o", "v", "e", "_", "a", "d", "d", "e", "d", "_", "t", "a", "s", "k">>
      [] w = "fetch_deleted_task" -> <<"f", "e", "t", "c", "h", "_", "d", "e", "l", "e", "t", "e", "d", "_", "t", "a", "s", "k">>
      [] w = "list_fetched_tasks" -> <<"l", "i", "s", "t", "_", "f", "e", "t", "c", "h", "e", "d", "_", "t", "a", "s", "k", "s">>
      [] w = "get_address_task" -> <<"g", "e", "t", "_", "a", "d", "d", "r", "e", "s", "s", "_", "t", "a", "s", "k">>
      [] w = "create" -> <<"c", "r", "e", "a", "t", "e">>
      [] w = "add" -> <<"a", "d", "d">>
      [] w = "send" -> <<"s", "e", "n", "d">>
      [] w = "update" -> <<"u", "p", "d", "a", "t", "e">>
      [] w = "edit" -> <<"e", "d", "i", "t">>
      [] w = "delete" -> <<"d", "e", "l", "e", "t", "e">>
      [] w = "remove" -> <<"r", "e", "m", "o", "v", "e">>
      [] w = "get" -> <<"g", "e", "t">>
      [] w = "fetch" -> <<"f", "e", "t", "c", "h">>
      [] w = "list" -> <<"l", "i", "s", "t">>

\* word in name: the word is a run of consecutive characters of the name
Contains(name, word) ==
    \E i \in 1..(Len(name) - Len(word) + 1) : SubSeq(name, i, i + Len(word) - 1) = word

\* The keywords of _execute_action_impl that occur in an action name
\* ("create" in action_name, ...)
Keywords(name) ==
    CASE name = "create_task" -> {"create"}
      [] name = "update_task" -> {"update"}
      [] name = "delete_task" -> {"delete"}
      [] name = "get_task"    -> {"get"}
      [] name = "list_tasks"  -> {"list"}
      [] name = "get_updated_task"   -> {"update", "get"}
      [] name = "remove_added_task"  -> {"add", "remove"}
      [] name = "fetch_deleted_task" -> {"delete", "fetch"}
      [] name = "list_fetched_tasks" -> {"fetch", "list"}
      [] name = "get_address_task"   -> {"add", "get"}
      [] OTHER -> {}

\* action_name.split("_")[-1]
LastToken(name) ==
    CASE name \in {"list_tasks", "list_fetched_tasks"} -> "tasks"
      [] name = "ping" -> "ping"
      [] name = "nope" -> "nope"
      [] OTHER -> "task"

\* line 106-108: the trailing token plus "s", the bare token for a list action
object_type(name) ==
    IF "list" \in Keywords(name) THEN LastToken(name)
    ELSE CASE LastToken(name) = "task" -> "tasks"
           [] LastToken(name) = "tasks" -> "taskss"
           [] LastToken(name) = "ping" -> "pings"
           [] OTHER -> "nopes"

\* The input schema of an action: the fields it requires.  create_task and
\* get_task carry the schemas the schema builder generates (title, id);
\* update_task and delete_task those of an app whose schema requires nothing.
Required(name) ==
    CASE name = "create_task" -> {"title"}
      [] name = "get_task" -> {"id"}
      [] OTHER -> {}

\* jsonschema.validate(inputs, action.inputs_schema) passes
ValidInputs(name, inputs) == \A f \in Required(name) : inputs[f] # Absent

\* {"id": obj_id, "status": "success", **inputs}, its keys of FieldNames
CreateResult(uuid, inputs) ==
    [f \in FieldNames |->
        IF inputs[f] # Absent THEN inputs[f]
        ELSE IF f = "id" THEN uuid ELSE Absent]

\* The mapping the caller passed, as it is once _execute_action_impl has
\* returned or raised: the update branch takes "id" out of it with
\* inputs.pop("id", None), line 115, before it looks at anything else.
InputsAfter(name, inputs) ==
    LET kw == Keywords(name)
    IN  IF kw \cap {"create", "add", "send"} = {} /\ kw \cap {"update", "edit"} # {}
          THEN [inputs EXCEPT !["id"] = Absent]
          ELSE inputs

\* The events the store calls of _execute_action_impl fire: create_object
\* always, update_object and delete_object when they find the object; the
\* branches that raise for a missing id do so before any store call.
ImplEvents(name, a, inputs, st) ==
    LET kw == Keywords(name)
        otype == object_type(name)
        id == inputs["id"]
        found == st[a].present /\ FindFirst(Objects(st, a, otype), id) # 0
        size == Len(Objects(st, a, otype))
    IN  IF kw \cap {"create", "add", "send"} # {}
          THEN <<Event(a, "create", size + 1)>>
        ELSE IF kw \cap {"update", "edit"} # {}
          THEN IF id # Absent /\ found THEN <<Event(a, "update", size)>> ELSE << >>
        ELSE IF kw \cap {"delete", "remove"} # {}
          THEN IF id # Absent /\ found THEN <<Event(a, "delete", size - 1)>> ELSE << >>
        ELSE << >>

\* What _execute_action_impl does and returns: err says that it raised,
\* st and uuid are the store afterwards.
ImplResult(err, st, uuid, obj, status) ==
    [err |-> err, st |-> st, uuid |-> uuid, obj |-> obj, status |-> status]

\* _execute_action_impl returning from an update without a target instead
\* of raising
_execute_action_impl_lenient(name, a, inputs, st, uuid, t) ==
    LET kw == Keywords(name)
        otype == object_type(name)
        id == inputs["id"]
        rest == [inputs EXCEPT !["id"] = Absent]      \* after inputs.pop("id")
        found == st[a].present /\ FindFirst(Objects(st, a, otype), id) # 0
    IN  IF kw \cap {"create", "add", "send"} # {}
          THEN ImplResult(FALSE, Created(st, a, otype, NewObject(uuid, t, inputs)),
                          uuid + 1, CreateResult(uuid, inputs), "success")
        ELSE IF kw \cap {"update", "edit"} # {}
          THEN IF id = Absent \/ ~found
                 THEN ImplResult(FALSE, st, uuid, NoObj, "")
                 ELSE LET st2 == [st EXCEPT ![a].colls[otype].objs =
                                      UpdatedObjects(@, id, rest, t)]
                      IN  ImplResult(FALSE, st2, uuid,
                                     read_object(st2, a, otype, id), "")
        ELSE IF kw \cap {"delete", "remove"} # {}
          THEN IF id = Absent \/ ~found
                 THEN ImplResult(TRUE, st, uuid, NoObj, "")
                 ELSE ImplResult(FALSE,
                                 [st EXCEPT ![a].colls[otype].objs =
                                      RemoveAt(@, FindFirst(@, id))],
                                 uuid,
                                 [NoObj EXCEPT !["id"] = id], "deleted")
        ELSE IF kw \cap {"get", "fetch"} # {}
          THEN IF id = Absent \/ ~found
                 THEN ImplResult(TRUE, st, uuid, NoObj, "")
                 ELSE ImplResult(FALSE, st, uuid, read_object(st, a, otype, id), "")
        ELSE IF "list" \in kw
          THEN ImplResult(FALSE, st, uuid, NoObj, "listed")
        ELSE ImplResult(FALSE, st, uuid, NoObj, "executed")

\* _execute_action_impl storing the object an update does not find, and
\* raising then
_execute_action_impl_upsert(name, a, inputs, st, uuid, t) ==
    LET kw == Keywords(name)
        otype == object_type(name)
        id == inputs["id"]
        rest == [inputs EXCEPT !["id"] = Absent]      \* after inputs.pop("id")
        found == st[a].present /\ FindFirst(Objects(st, a, otype), id) # 0
    IN  IF kw \cap {"create", "add", "send"} # {}
          THEN ImplResult(FALSE, Created(st, a, otype, NewObject(uuid, t, inputs)),
                          uuid + 1, CreateResult(uuid, inputs), "success")
        ELSE IF kw \cap {"update", "edit"} # {}
          THEN IF id = Absent
                 THEN ImplResult(TRUE, st, uuid, NoObj, "")
               ELSE IF ~found
                 THEN ImplResult(TRUE,
                                 Created(st, a, otype, NewObject(uuid, t, rest)),
                                 uuid + 1, NoObj, "")
                 ELSE LET st2 == [st EXCEPT ![a].colls[otype].objs =
                                      UpdatedObjects(@, id, rest, t)]
                      IN  ImplResult(FALSE, st2, uuid,
                                     read_object(st2, a, otype, id), "")
        ELSE IF kw \cap {"delete", "remove"} # {}
          THEN IF id = Absent \/ ~found
                 THEN ImplResult(TRUE, st, uuid, NoObj, "")
                 ELSE ImplResult(FALSE,
                                 [st EXCEPT ![a].colls[otype].objs =
                                      RemoveAt(@, FindFirst(@, id))],
                                 uuid,
                                 [NoObj EXCEPT !["id"] = id], "deleted")
        ELSE IF kw \cap {"get", "fetch"} # {}
          THEN IF id = Absent \/ ~found
                 THEN ImplResult(TRUE, st, uuid, NoObj, "")
                 ELSE ImplResult(FALSE, st, uuid, read_object(st, a, otype, id), "")
        ELSE IF "list" \in kw
          THEN ImplResult(FALSE, st, uuid, NoObj, "listed")
        ELSE ImplResult(FALSE, st, uuid, NoObj, "executed")

\* _execute_action_impl testing get/fetch before update/edit
_execute_action_impl_get_first(name, a, inputs, st, uuid, t) ==
    LET kw == Keywords(name)
        otype == object_type(name)
        id == inputs["id"]
        rest == [inputs EXCEPT !["id"] = Absent]      \* after inputs.pop("id")
        found == st[a].present /\ FindFirst(Objects(st, a, otype), id) # 0
    IN  IF kw \cap {"create", "add", "send"} # {}
          THEN ImplResult(FALSE, Created(st, a, otype, NewObject(uuid, t, inputs)),
                          uuid + 1, CreateResult(uuid, inputs), "success")
        ELSE IF kw \cap {"get", "fetch"} # {}
          THEN IF id = Absent \/ ~found
                 THEN ImplResult(TRUE, st, uuid, NoObj, "")
                 ELSE ImplResult(FALSE, st, uuid, read_object(st, a, otype, id), "")
        ELSE IF kw \cap {"update", "edit"} # {}
          THEN IF id = Absent \/ ~found
                 THEN ImplResult(TRUE, st, uuid, NoObj, "")
                 ELSE LET st2 == [st EXCEPT ![a].colls[otype].objs =
                                      UpdatedObjects(@, id, rest, t)]
                      IN  ImplResult(FALSE, st2, uuid,
                                     read_object(st2, a, otype, id), "")
        ELSE IF kw \cap {"delete", "remove"} # {}
          THEN IF id = Absent \/ ~found
                 THEN ImplResult(TRUE, st, uuid, NoObj, "")
                 ELSE ImplResult(FALSE,
                                 [st EXCEPT ![a].colls[otype].objs =
                                      RemoveAt(@, FindFirst(@, id))],
                                 uuid,
                                 [NoObj EXCEPT !["id"] = id], "deleted")
        ELSE IF "list" \in kw
          THEN ImplResult(FALSE, st, uuid, NoObj, "listed")
        ELSE ImplResult(FALSE, st, uuid, NoObj, "executed")

_execute_action_impl(name, a, inputs, st, uuid, t) ==
    LET kw == Keywords(name)
        otype == object_type(name)
        id == inputs["id"]
        rest == [inputs EXCEPT !["id"] = Absent]      \* after inputs.pop("id")
        found == st[a].present /\ FindFirst(Objects(st, a, otype), id) # 0
    IN  IF kw \cap {"create", "add", "send"} # {}
          THEN ImplResult(FALSE, Created(st, a, otype, NewObject(uuid, t, inputs)),
                          uuid + 1, CreateResult(uuid, inputs), "success")
        ELSE IF kw \cap {"update", "edit"} # {}
          THEN IF id = Absent \/ ~found
                 THEN ImplResult(TRUE, st, uuid, NoObj, "")
                 ELSE LET st2 == [st EXCEPT ![a].colls[otype].objs =
                                      UpdatedObjects(@, id, rest, t)]
                      IN  ImplResult(FALSE, st2, uuid,
                                     read_object(st2, a, otype, id), "")
        ELSE IF kw \cap {"delete", "remove"} # {}
          THEN IF id = Absent \/ ~found
                 THEN ImplResult(TRUE, st, uuid, NoObj, "")
                 ELSE ImplResult(FALSE,
                                 [st EXCEPT ![a].colls[otype].objs =
                                      RemoveAt(@, FindFirst(@, id))],
                                 uuid,
                                 [NoObj EXCEPT !["id"] = id], "deleted")
        ELSE IF kw \cap {"get", "fetch"} # {}
          THEN IF id = Absent \/ ~found
                 THEN ImplResult(TRUE, st, uuid, NoObj, "")
                 ELSE ImplResult(FALSE, st, uuid, read_object(st, a, otype, id), "")
        ELSE IF "list" \in kw
          THEN ImplResult(FALSE, st, uuid, NoObj, "listed")
        ELSE ImplResult(FALSE, st, uuid, NoObj, "executed")

\* AppRuntime.__init__, line 28-34
NewRuntime(a, n, b) ==
    /\ rate_limits' = [rate_limits EXCEPT ![a] =
           [set |-> TRUE, requests_per_min |-> n, burst_limit |-> b]]
    /\ auth_states' = [auth_states EXCEPT ![a] = "true"]
    /\ network_states' = [network_states EXCEPT ![a] = "true"]
    /\ last' = [NoLast EXCEPT !.op = "AppRuntime", !.app = a]
    /\ UNCHANGED <<hubVars, now, error_profile, request_counts, recorded, limited,
                   storeVars, call>>

\* a runtime for the app has been constructed
HasRuntime(a) ==
    rate_limits[a].set /\ auth_states[a] # "unset" /\ network_states[a] # "unset"

\* ExecNotFound recording the request before it resolves the action
ExecNotFound_recorded(a, name) ==
    /\ HasRuntime(a)
    /\ name \notin KnownActions
    /\ request_counts' = [request_counts EXCEPT ![a] = Append(@, now)]
    /\ recorded' = [recorded EXCEPT ![a] = Append(@, now)]
    /\ last' = [NoLast EXCEPT !.op = "execute_action", !.app = a, !.action = name,
                   !.success = FALSE,
                   !.fault = Fault("action_not_found", "Action not found",
                                   FALSE, FALSE, None)]
    /\ UNCHANGED <<hubVars, now, error_profile, rate_limits, auth_states,
                   network_states, limited, storeVars, call>>

\* execute_action, line 40-48: the action is not defined
ExecNotFound(a, name) ==
    /\ HasRuntime(a)
    /\ name \notin KnownActions
    /\ last' = [NoLast EXCEPT !.op = "execute_action", !.app = a, !.action = name,
                   !.success = FALSE,
                   !.fault = Fault("action_not_found", "Action not found",
                                   FALSE, FALSE, None)]
    /\ UNCHANGED <<hubVars, now, simVars, storeVars, call>>

\* ExecBegin going into the sleep without recording the request
ExecBegin_unrecorded(a, name) ==
    /\ call.pc = "idle"
    /\ HasRuntime(a)
    /\ name \in KnownActions
    /\ call' = [pc |-> "sleeping", app |-> a, action |-> name]
    /\ last' = [NoLast EXCEPT !.op = "execute_action_sleep", !.app = a, !.action = name]
    /\ UNCHANGED <<hubVars, now, simVars, storeVars>>

\* execute_action, line 50-55: record the request and suspend in the sleep
ExecBegin(a, name) ==
    /\ call.pc = "idle"
    /\ HasRuntime(a)
    /\ name \in KnownActions
    /\ Len(request_counts[a]) < MaxLog
    /\ Len(recorded[a]) <= MaxLog       \* at most MaxLog + 1 calls per app over a run
    /\ request_counts' = [request_counts EXCEPT ![a] = Append(@, now)]
    /\ recorded' = [recorded EXCEPT ![a] = Append(@, now)]
    /\ call' = [pc |-> "sleeping", app |-> a, action |-> name]
    /\ last' = [NoLast EXCEPT !.op = "execute_action_sleep", !.app = a, !.action = name]
    /\ UNCHANGED <<hubVars, now, error_profile, rate_limits, auth_states, network_states,
                   limited, storeVars>>

\* ExecEnd validating the inputs before it looks at the simulated fault
ExecEnd_validate_first(inputs) ==
    /\ call.pc = "sleeping"
    /\ LET a == call.app
           name == call.action
       IN  \E r \in simulate_error(network_states[a], auth_states[a], rate_limits[a],
                                   request_counts[a], error_profile, now) :
             LET impl == _execute_action_impl(name, a, inputs, app_states, next_uuid, now)
                 base == [NoLast EXCEPT !.op = "execute_action", !.app = a,
                                        !.action = name,
                                        !.exceeded = r.exceeded,
                                        !.decided = r.fault,
                                        !.id = inputs["id"],
                                        !.ok = ValidInputs(name, inputs)]
             IN  /\ request_counts' = [request_counts EXCEPT ![a] =
                        LogAfterSimulate(network_states[a], auth_states[a],
                                         rate_limits[a], @, now)]
                 /\ limited' = IF r.exceeded /\ ~r.raised THEN limited \cup {a} ELSE limited
                 /\ IF r.raised
                      THEN \* the exception of simulate_error leaves execute_action
                           /\ last' = [base EXCEPT !.raised = TRUE]
                           /\ UNCHANGED storeVars
                    ELSE IF ~ValidInputs(name, inputs)
                      THEN /\ last' = [base EXCEPT !.fault =
                                  Fault("schema_error", "Invalid input schema",
                                        TRUE, FALSE, None)]
                           /\ UNCHANGED storeVars
                    ELSE IF r.fault # NoFault
                      THEN /\ last' = [base EXCEPT !.fault = r.fault]
                           /\ UNCHANGED storeVars
                    ELSE IF impl.err
                      THEN /\ last' = [base EXCEPT !.fault =
                                  Fault("execution_error", "Action execution failed",
                                        TRUE, FALSE, None)]
                           /\ UNCHANGED storeVars
                    ELSE /\ impl.uuid <= MaxObjs + 1
                         /\ app_states' = impl.st
                         /\ next_uuid' = impl.uuid
                         /\ last' = [base EXCEPT !.success = TRUE, !.obj = impl.obj,
                                                 !.status = impl.status]
    /\ call' = NoCall
    /\ UNCHANGED <<hubVars, now, error_profile, rate_limits, auth_states, network_states,
                   recorded>>

\* execute_action, line 57-94, after the sleep.  The payload is not looked
\* at before this point, so it is drawn here.
ExecEnd(inputs) ==
    /\ call.pc = "sleeping"
    /\ LET a == call.app
           name == call.action
       IN  \E r \in simulate_error(network_states[a], auth_states[a], rate_limits[a],
                                   request_counts[a], error_profile, now) :
             LET impl == _execute_action_impl(name, a, inputs, app_states, next_uuid, now)
                 base == [NoLast EXCEPT !.op = "execute_action", !.app = a,
                                        !.action = name,
                                        !.exceeded = r.exceeded,
                                        !.decided = r.fault,
                                        !.id = inputs["id"],
                                        !.kept = inputs["id"],
                                        !.ok = ValidInputs(name, inputs)]
                 after == InputsAfter(name, inputs)
                 fired == ImplEvents(name, a, inputs, app_states)
             IN  /\ request_counts' = [request_counts EXCEPT ![a] =
                        LogAfterSimulate(network_states[a], auth_states[a],
                                         rate_limits[a], @, now)]
                 /\ limited' = IF r.exceeded /\ ~r.raised THEN limited \cup {a} ELSE limited
                 /\ IF r.raised
                      THEN \* the exception of simulate_error leaves execute_action
                           /\ last' = [base EXCEPT !.raised = TRUE]
                           /\ UNCHANGED storeVars
                    ELSE IF r.fault # NoFault
                      THEN /\ last' = [base EXCEPT !.fault = r.fault]
                           /\ UNCHANGED storeVars
                    ELSE IF ~ValidInputs(name, inputs)
                      THEN /\ last' = [base EXCEPT !.fault =
                                  Fault("schema_error", "Invalid input schema",
                                        TRUE, FALSE, None)]
                           /\ UNCHANGED storeVars
                    ELSE IF impl.err
                      THEN \* the store is as the call that raised has left it
                           /\ impl.uuid <= MaxObjs + 1
                           /\ app_states' = impl.st
                           /\ next_uuid' = impl.uuid
                           /\ last' = [base EXCEPT !.kept = after["id"], !.fault =
                                  Fault("execution_error", "Action execution failed",
                                        TRUE, FALSE, None),
                                  !.fired = fired]
                    ELSE /\ impl.uuid <= MaxObjs + 1
                         /\ app_states' = impl.st
                         /\ next_uuid' = impl.uuid
                         /\ last' = [base EXCEPT !.success = TRUE, !.obj = impl.obj,
                                                 !.kept = after["id"],
                                                 !.fired = fired,
                                                 !.status = impl.status]
    /\ call' = NoCall
    /\ UNCHANGED <<hubVars, now, error_profile, rate_limits, auth_states, network_states,
                   recorded>>

\* The inputs a client passes to an action: a title or none, the id of an
\* object the store has handed out or none.
Inputs ==
    {[f \in FieldNames |->
         IF f = "id" THEN i ELSE IF f = "title" THEN v ELSE Absent] :
       i \in (1..(next_uuid - 1)) \cup {Absent}, v \in TitleVals \cup {Absent}}

\* a fault-table entry whose key is no ErrorType member
BogusEntry == [kind |-> "bogus", p |-> ProbOne]

Next ==
    \/ \E t \in RunClock : Tick(t)
    \/ \E a \in Callers, l \in AppProfiles : NewRuntime(a, l[1], l[2])
    \/ \E a \in Callers, name \in ActionNames : ExecNotFound(a, name)
    \/ \E a \in Callers, name \in ActionNames : ExecBegin(a, name)
    \/ \E d \in Inputs : ExecEnd(d)
    \/ \E a \in Callers : Decide(a)
    \/ update_error_profile(BogusEntry)

Spec == Init /\ [][Next]_vars

\* The chaos levels an operator sets, in 1/100: 0.0, 0.5, 1.0, 2.0 of the
\* documented range and 10.0, where the cap of 0.95 applies
Multipliers == {0, 50, 100, 200, 1000}

\* WalkWith going through the table from its end
RECURSIVE WalkWith_reverse(_, _, _)
WalkWith_reverse(profile, draws, i) ==
    LET j == Len(profile) - i + 1
    IN  IF i > Len(profile) THEN [res |-> Returned(NoFault, FALSE), used |-> i - 1]
        ELSE IF draws[i] < profile[j].p
          THEN [res |-> IF profile[j].kind \in ErrorType
                          THEN Returned(_generate_error(profile[j].kind), FALSE)
                          ELSE Raised(FALSE),
                used |-> i]
          ELSE WalkWith_reverse(profile, draws, i + 1)

\* simulate_error, line 120-125, for a given sequence of random.random()
\* values: the i-th iteration compares the i-th draw with the probability of
\* the i-th entry; used is the number of draws made.
RECURSIVE WalkWith(_, _, _)
WalkWith(profile, draws, i) ==
    IF i > Len(profile) THEN [res |-> Returned(NoFault, FALSE), used |-> i - 1]
    ELSE IF draws[i] < profile[i].p
      THEN [res |-> IF profile[i].kind \in ErrorType
                      THEN Returned(_generate_error(profile[i].kind), FALSE)
                      ELSE Raised(FALSE),
            used |-> i]
      ELSE WalkWith(profile, draws, i + 1)

\* the sequences of draws one walk can consume
DrawSeqs(profile) == [1..Len(profile) -> Draws]

\* simulate_error on an app for which no deterministic fault applies, with
\* the values random.random() returns
DecideWith(a, draws) ==
    /\ network_states[a] # "false"
    /\ auth_states[a] # "false"
    /\ ~check_rate_limit(rate_limits[a], request_counts[a], now)
    /\ LET w == WalkWith(error_profile, draws, 1)
       IN  last' = [NoLast EXCEPT !.op = "simulate_error_draws", !.app = a,
                                  !.fault = w.res.fault, !.raised = w.res.raised,
                                  !.draws = draws, !.used = w.used]
    /\ request_counts' = [request_counts EXCEPT ![a] =
           LogAfterCheck(rate_limits[a], @, now)]
    /\ UNCHANGED <<hubVars, now, error_profile, rate_limits, auth_states,
                   network_states, recorded, limited, storeVars, call>>

NextWalk ==
    \/ \E l \in Multipliers : set_chaos_mode(l)
    \/ \E e \in ProfileUpdates : update_error_profile(e)
    \/ \E a \in Callers, d \in DrawSeqs(error_profile) : DecideWith(a, d)

SpecWalk == Init /\ [][NextWalk]_vars

\* Two apps side by side: app A runs actions and has its store operated on,
\* app B has an object created and its simulator state operated on
Others == Apps \ Callers

NextScope ==
    \/ \E a \in Apps, t \in Types, d \in PlainPayloads : create_object(a, t, d)
    \/ \E a \in Callers, t \in Types, i \in 1..(next_uuid - 1), d \in PlainPayloads :
          update_object(a, t, i, d)
    \/ \E a \in Callers, t \in Types, i \in 1..(next_uuid - 1) : delete_object(a, t, i)
    \/ \E a \in Callers, t \in Types : set_app_state(a, t, << >>)
    \/ \E a \in Callers, t \in Types : update_app_state(a, t, TRUE, << >>)
    \/ \E a \in Callers : clear_app_state(a)
    \/ \E a \in Others : configure_rate_limit(a, MaxLimit, 1)
    \/ \E a \in Others : set_auth_state(a, "false")
    \/ \E a \in Others : set_network_state(a, "false")
    \/ \E a \in Others : record_request(a)
    \/ \E a \in Callers : NewRuntime(a, MaxLimit, 1)
    \/ \E a \in Callers : ExecBegin(a, "create_task")
    \/ \E d \in PlainPayloads : ExecEnd(d)

SpecScope == Init /\ [][NextScope]_vars

\* ---------------------------------------- StateEngine called from threads
\* Every public operation of StateEngine runs inside "with self.lock", a
\* threading.RLock (engine.py:19): a thread enters when the lock is free or
\* when it holds the lock itself.

\* a lock that lets every thread in
CanAcquire_unlocked(th) == TRUE

\* a threading.Lock: the holder itself has to wait as well
CanAcquire_plain(th) == lock.owner = 0

CanAcquire(th) == lock.owner = 0 \/ lock.owner = th

Acquired(th) == [owner |-> th, count |-> lock.count + 1]
Released == IF lock.count <= 1 THEN NoLock ELSE [lock EXCEPT !.count = @ - 1]

StoreOps == {"create_object", "read_object", "update_object", "delete_object",
             "get_app_state", "clear_app_state"}

\* The operation run in one piece on the state st: the state it leaves and
\* the values it returns (create_object, read_object, update_object,
\* delete_object, get_app_state, clear_app_state above).
Atomic(st, op, a, t, id, data, clock) ==
    LET found == st[a].present /\ FindFirst(Objects(st, a, t), id) # 0
        res(st2, ok, obj, view) == [st |-> st2, ok |-> ok, obj |-> obj, view |-> view]
    IN  CASE op = "create_object" ->
               res(Created(st, a, t, NewObject(id, clock, data)), TRUE, NoObj, NoView)
          [] op = "read_object" ->
               res(st, read_object(st, a, t, id) # NoObj, read_object(st, a, t, id),
                   NoView)
          [] op = "update_object" ->
               res(IF found
                     THEN [st EXCEPT ![a].colls[t].objs = UpdatedObjects(@, id, data, clock)]
                     ELSE st, found, NoObj, NoView)
          [] op = "delete_object" ->
               res(IF found
                     THEN [st EXCEPT ![a].colls[t].objs = RemoveAt(@, FindFirst(@, id))]
                     ELSE st, found, NoObj, NoView)
          [] op = "get_app_state" ->
               res([st EXCEPT ![a].present = TRUE], TRUE, NoObj, st[a].colls)
          [] op = "clear_app_state" ->
               res([st EXCEPT ![a] = NoAppState],
                   \E u \in Types : st[a].colls[u].present, NoObj, NoView)

\* What the first half of an operation finds: whether the collection
\* exists (create_object, line 46-49), the position of the first object with
\* the id (line 64-68, 75-79, 89-93), whether the app has an entry (line 25,
\* 131).
Seen(st, op, a, t, id) ==
    CASE op = "create_object" -> IF st[a].colls[t].present THEN 1 ELSE 0
      [] op \in {"read_object", "update_object", "delete_object"} ->
           IF st[a].present THEN FindFirst(Objects(st, a, t), id) ELSE 0
      [] OTHER -> IF st[a].present THEN 1 ELSE 0

\* The thread takes the lock and runs the operation up to the point where
\* it has looked its target up.  shadow is given the whole operation here.
StoreBegin(th, op, a, t, id, data) ==
    /\ thr[th].pc = "idle"
    /\ CanAcquire(th)
    /\ op = "create_object" => next_uuid <= MaxObjs
    /\ LET oid == IF op = "create_object" THEN next_uuid ELSE id
           at == Atomic(shadow, op, a, t, oid, data, now)
       IN  /\ thr' = [thr EXCEPT ![th] =
                  [NoThread EXCEPT !.pc = "located", !.op = op, !.app = a, !.type = t,
                                   !.id = oid, !.data = data,
                                   !.seen = Seen(app_states, op, a, t, oid),
                                   !.want = [ok |-> at.ok, obj |-> at.obj,
                                             view |-> at.view]]]
           /\ shadow' = at.st
    /\ lock' = Acquired(th)
    /\ next_uuid' = IF op = "create_object" THEN next_uuid + 1 ELSE next_uuid
    /\ last' = [NoLast EXCEPT !.op = "store_enter", !.app = a, !.by = th, !.action = op]
    /\ UNCHANGED <<trigVars, now, simVars, app_states, event_listeners, shared_objects, snapshot,
                   call>>

\* the event the operation propagates, "" for none
EventFor(op, ok) ==
    IF op = "create_object" THEN "create"
    ELSE IF op = "update_object" /\ ok THEN "update"
    ELSE IF op = "delete_object" /\ ok THEN "delete"
    ELSE ""

\* a callback under the key calls back into the store
HasReentrant(a, e) ==
    /\ e # ""
    /\ \E i \in 1..Len(event_listeners[<<a, e>>]) : event_listeners[<<a, e>>][i] = Reenters

\* what the thread reports when its operation returns
Returning(th, ok, obj, view, nested) ==
    [NoLast EXCEPT !.op = "store_call", !.by = th, !.action = thr[th].op,
                   !.app = thr[th].app, !.type = thr[th].type, !.id = thr[th].id,
                   !.ok = ok, !.obj = obj, !.view = view, !.want = thr[th].want,
                   !.nested = nested]

\* The second half: the operation acts on what it found.  It then returns
\* and leaves the lock, or it goes on to a callback that calls the store.
StoreApply(th) ==
    /\ thr[th].pc = "located"
    /\ LET r == thr[th]
           a == r.app
           t == r.type
           objs == Objects(app_states, a, t)
           hit == r.seen \in 1..Len(objs)
           ok == CASE r.op \in {"create_object", "get_app_state"} -> TRUE
                   [] r.op = "clear_app_state" ->
                        \E u \in Types : app_states[a].colls[u].present
                   [] OTHER -> r.seen # 0
           obj == IF r.op = "read_object" /\ hit THEN objs[r.seen] ELSE NoObj
           view == IF r.op = "get_app_state" THEN app_states[a].colls ELSE NoView
           e == EventFor(r.op, ok)
       IN  /\ app_states' =
                 CASE r.op = "create_object" ->
                        [app_states EXCEPT ![a] =
                           [present |-> TRUE,
                            colls |-> [@.colls EXCEPT ![t] =
                               [present |-> TRUE,
                                objs |-> Append(IF r.seen = 1 THEN objs ELSE << >>,
                                                NewObject(r.id, now, r.data))]]]]
                   [] r.op = "update_object" /\ hit ->
                        [app_states EXCEPT ![a].colls[t].objs[r.seen] =
                           Merged(@, r.data, now)]
                   [] r.op = "delete_object" /\ hit ->
                        [app_states EXCEPT ![a].colls[t].objs = RemoveAt(@, r.seen)]
                   [] r.op = "get_app_state" ->
                        [app_states EXCEPT ![a].present = TRUE]
                   [] r.op = "clear_app_state" /\ r.seen = 1 ->
                        [app_states EXCEPT ![a] = NoAppState]
                   [] OTHER -> app_states
           /\ IF HasReentrant(a, e)
                THEN /\ thr' = [thr EXCEPT ![th].pc = "dispatching", ![th].ok = ok,
                                           ![th].obj = obj, ![th].view = view]
                     /\ last' = [NoLast EXCEPT !.op = "store_dispatch", !.app = a,
                                               !.by = th, !.action = r.op]
                     /\ UNCHANGED lock
                ELSE /\ thr' = [thr EXCEPT ![th] = NoThread]
                     /\ last' = Returning(th, ok, obj, view, FALSE)
                     /\ lock' = Released
    /\ UNCHANGED <<trigVars, now, simVars, next_uuid, event_listeners, shared_objects, snapshot,
                   shadow, call>>

\* _propagate_event, line 120: the callback calls read_object, which enters
\* "with self.lock" on the thread that holds the lock already
NestedEnter(th) ==
    /\ thr[th].pc = "dispatching"
    /\ CanAcquire(th)
    /\ lock' = Acquired(th)
    /\ thr' = [thr EXCEPT ![th].pc = "nested"]
    /\ last' = [NoLast EXCEPT !.op = "store_nested_enter", !.app = thr[th].app,
                              !.by = th]
    /\ UNCHANGED <<trigVars, now, simVars, storeVars, event_listeners, shared_objects, snapshot,
                   shadow, call>>

\* the callback's read_object returns and leaves its "with" block
NestedExit(th) ==
    /\ thr[th].pc = "nested"
    /\ lock' = Released
    /\ thr' = [thr EXCEPT ![th].pc = "returning"]
    /\ last' = [NoLast EXCEPT !.op = "store_nested", !.app = thr[th].app, !.by = th,
                   !.id = thr[th].id,
                   !.obj = read_object(app_states, thr[th].app, thr[th].type, thr[th].id),
                   !.ok = read_object(app_states, thr[th].app, thr[th].type,
                                      thr[th].id) # NoObj]
    /\ UNCHANGED <<trigVars, now, simVars, storeVars, event_listeners, shared_objects, snapshot,
                   shadow, call>>

\* the operation that propagated the event returns and leaves the lock
StoreReturn(th) ==
    /\ thr[th].pc = "returning"
    /\ lock' = Released
    /\ last' = Returning(th, thr[th].ok, thr[th].obj, thr[th].view, TRUE)
    /\ thr' = [thr EXCEPT ![th] = NoThread]
    /\ UNCHANGED <<trigVars, now, simVars, storeVars, event_listeners, shared_objects, snapshot,
                   shadow, call>>

\* subscribe_event, line 110-113, called by a thread: it runs inside the lock
Subscribe(th, a, e, cb) ==
    /\ thr[th].pc = "idle"
    /\ CanAcquire(th)
    /\ subscribe_event(a, e, cb)

NextLock ==
    \/ \E th \in Threads, a \in Callers : Subscribe(th, a, "update", Reenters)
    \/ \E th \in Threads, op \in StoreOps, a \in Callers, t \in Types, i \in KnownIds,
          d \in PlainPayloads :
          StoreBegin(th, op, a, t, i, d)
    \/ \E th \in Threads : StoreApply(th)
    \/ \E th \in Threads : NestedEnter(th)
    \/ \E th \in Threads : NestedExit(th)
    \/ \E th \in Threads : StoreReturn(th)

SpecLock == Init /\ [][NextLock]_vars

\* ------------------------------------- ErrorSimulator called from threads
\* ErrorSimulator takes no lock.  record_request, line 80, evaluates
\* self.request_counts[app_name] and then appends to the list it got;
\* check_rate_limit, line 60-63, builds the filtered list and then binds it to
\* the key.  A thread can be switched out between the two halves.
RecordBegin(th, a) ==
    /\ thr[th].pc = "idle"
    /\ Len(request_counts[a]) < MaxLog
    /\ Len(recorded[a]) < MaxLog
    /\ thr' = [thr EXCEPT ![th] = [NoThread EXCEPT !.pc = "appending", !.app = a]]
    /\ last' = [NoLast EXCEPT !.op = "record_request_list", !.app = a, !.by = th]
    /\ UNCHANGED <<trigVars, now, simVars, storeVars, event_listeners, shared_objects, snapshot,
                   lock, shadow, call>>

\* the append reaches the list the thread holds: the app's log, or a list
\* check_rate_limit has replaced in the meantime
RecordEnd(th) ==
    /\ thr[th].pc = "appending"
    /\ LET a == thr[th].app
       IN  /\ request_counts' = IF thr[th].stale THEN request_counts
                                ELSE [request_counts EXCEPT ![a] = Append(@, now)]
           /\ recorded' = [recorded EXCEPT ![a] = Append(@, now)]
           /\ last' = [NoLast EXCEPT !.op = "record_request", !.app = a, !.by = th,
                                     !.ok = ~thr[th].stale]
    /\ thr' = [thr EXCEPT ![th] = NoThread]
    /\ UNCHANGED <<trigVars, now, error_profile, rate_limits, auth_states, network_states,
                   limited, storeVars, event_listeners, shared_objects, snapshot,
                   lock, shadow, call>>

\* check_rate_limit, line 53-63: now is read and the filtered list is built
CheckBegin(th, a) ==
    /\ thr[th].pc = "idle"
    /\ rate_limits[a].set
    /\ thr' = [thr EXCEPT ![th] =
           [NoThread EXCEPT !.pc = "filtering", !.app = a, !.seen = now,
                            !.pending = CleanOld(request_counts[a], now)]]
    /\ last' = [NoLast EXCEPT !.op = "check_rate_limit_filter", !.app = a, !.by = th]
    /\ UNCHANGED <<trigVars, now, simVars, storeVars, event_listeners, shared_objects, snapshot,
                   lock, shadow, call>>

\* check_rate_limit, line 60-74: the filtered list is bound to the key, the
\* two checks read it; a thread that holds the old list now holds a list
\* the simulator no longer reads
CheckEnd(th) ==
    /\ thr[th].pc = "filtering"
    /\ LET a == thr[th].app
       IN  /\ request_counts' = [request_counts EXCEPT ![a] = thr[th].pending]
           /\ thr' = [o \in Threads |->
                        IF o = th THEN NoThread
                        ELSE IF thr[o].pc = "appending" /\ thr[o].app = a
                          THEN [thr[o] EXCEPT !.stale = TRUE]
                        ELSE thr[o]]
           /\ last' = [NoLast EXCEPT !.op = "check_rate_limit", !.app = a, !.by = th,
                          !.exceeded = check_rate_limit(rate_limits[a], thr[th].pending,
                                                        thr[th].seen)]
    /\ UNCHANGED <<trigVars, now, error_profile, rate_limits, auth_states, network_states,
                   recorded, limited, storeVars, event_listeners, shared_objects,
                   snapshot, lock, shadow, call>>

NextThreads ==
    \/ \E t \in ClockValues : Tick(t)
    \/ \E a \in Callers, l \in AppProfiles : configure_rate_limit(a, l[1], l[2])
    \/ \E th \in Threads, a \in Callers : RecordBegin(th, a)
    \/ \E th \in Threads : RecordEnd(th)
    \/ \E th \in Threads, a \in Callers : CheckBegin(th, a)
    \/ \E th \in Threads : CheckEnd(th)

SpecThreads == Init /\ [][NextThreads]_vars

\* all_objects[:limit] of Python: the first limit elements for limit >= 0,
\* all but the last -limit elements for limit < 0
Slice(objs, limit) ==
    IF limit >= 0 THEN SubSeq(objs, 1, Min(limit, Len(objs)))
    ELSE SubSeq(objs, 1, Max(Len(objs) + limit, 0))

\* the limits a client passes to a list action
ListLimits == {-1, 0, 1, 50}

\* execute_action from the end of the sleep for a list action whose inputs
\* are {"limit": limit}, or {} when no limit is given: simulate_error, the
\* schema of a list action (no required field), then line 142-146.
\* get_app_state gives the app an entry when it has none.
ExecEndList(given, limit) ==
    /\ call.pc = "sleeping"
    /\ Keywords(call.action) = {"list"}
    /\ LET a == call.app
           name == call.action
       IN  \E r \in simulate_error(network_states[a], auth_states[a], rate_limits[a],
                                   request_counts[a], error_profile, now) :
             LET all_objects == Objects(app_states, a, object_type(name))
                 base == [NoLast EXCEPT !.op = "execute_action", !.app = a,
                                        !.action = name, !.exceeded = r.exceeded,
                                        !.decided = r.fault, !.ok = TRUE,
                                        !.given = given,
                                        !.limit = IF given THEN limit ELSE 0]
             IN  /\ request_counts' = [request_counts EXCEPT ![a] =
                        LogAfterSimulate(network_states[a], auth_states[a],
                                         rate_limits[a], @, now)]
                 /\ limited' = IF r.exceeded /\ ~r.raised THEN limited \cup {a} ELSE limited
                 /\ IF r.raised
                      THEN /\ last' = [base EXCEPT !.raised = TRUE]
                           /\ UNCHANGED app_states
                    ELSE IF r.fault # NoFault
                      THEN /\ last' = [base EXCEPT !.fault = r.fault]
                           /\ UNCHANGED app_states
                    ELSE /\ app_states' = [app_states EXCEPT ![a].present = TRUE]
                         /\ last' = [base EXCEPT
                               !.success = TRUE, !.status = "listed",
                               !.results = Slice(all_objects, IF given THEN limit ELSE 50),
                               !.count = Len(all_objects)]
    /\ call' = NoCall
    /\ UNCHANGED <<hubVars, now, error_profile, rate_limits, auth_states, network_states,
                   recorded, next_uuid>>

NextList ==
    \/ \E a \in Callers, t \in Types, d \in PlainPayloads : create_object(a, t, d)
    \/ \E a \in Callers : NewRuntime(a, MaxLog + 2, MaxLog + 2)
    \/ \E l \in {0, 100} : set_chaos_mode(l)
    \/ \E a \in Callers : ExecBegin(a, "list_tasks")
    \/ \E g \in BOOLEAN, l \in ListLimits : ExecEndList(g, l)

SpecList == Init /\ [][NextList]_vars

\* The pipeline on actions whose names carry keywords of several classes
NextClassify ==
    \/ \E a \in Callers : NewRuntime(a, MaxLog + 2, MaxLog + 2)
    \/ set_chaos_mode(0)
    \/ \E a \in Callers, name \in MixedActions \cup {"create_task"} : ExecBegin(a, name)
    \/ \E d \in Inputs : ExecEnd(d)

SpecClassify == Init /\ [][NextClassify]_vars

\* A rate profile that MaxLog requests never reach, and the actions with a
\* CRUD class that reads or writes one object
RoomyProfile == <<MaxLog + 2, MaxLog + 2>>
CrudActions == {"create_task", "update_task", "delete_task", "get_task"}

\* The pipeline for an app whose limits leave room: the calls are rejected
\* by the table's faults only, or by none once the chaos level is 0.
NextCrud ==
    \/ \E t \in RunClock : Tick(t)
    \/ \E a \in Callers : NewRuntime(a, RoomyProfile[1], RoomyProfile[2])
    \/ set_chaos_mode(0)
    \/ \E a \in Callers, name \in CrudActions : ExecBegin(a, name)
    \/ \E d \in Inputs : ExecEnd(d)

SpecCrud == Init /\ [][NextCrud]_vars

NextChaos ==
    \/ \E l \in Multipliers : set_chaos_mode(l)
    \/ \E e \in ProfileUpdates \cup {BogusEntry} : update_error_profile(e)
    \/ \E a \in Callers, l \in AppProfiles : configure_rate_limit(a, l[1], l[2])
    \/ \E a \in Callers, v \in {"true", "false"} : set_auth_state(a, v)
    \/ \E a \in Callers, v \in {"true", "false"} : set_network_state(a, v)
    \/ \E a \in Callers : record_request(a)
    \/ \E a \in Callers : Decide(a)

SpecChaos == Init /\ [][NextChaos]_vars

\* ================================================================== claims
\* the app's deterministic flags let simulate_error reach the rate check
Healthy(a) == network_states[a] # "false" /\ auth_states[a] # "false"

\* how many of the recorded timestamps of app a are younger than w seconds
CountWithin(a, w) ==
    Cardinality({i \in 1..Len(recorded[a]) : now - recorded[a][i] < w})

\* the fault of the rate check, with a retry_after that is a number >= 0
IsRateLimitFault(f) ==
    /\ f.type = "rate_limit"
    /\ f.message = "Rate limit exceeded"
    /\ f.retry_key
    /\ f.retry_after >= 0

\* C1: simulate_error returns network_unreachable whenever the app's network
\* flag is unavailable, and auth_expired whenever the network is available
\* and the app is not authenticated, whatever the request log and the
\* probability table hold.
C1_FlagsTakePrecedence ==
    last.op = "simulate_error" =>
        /\ (network_states[last.app] = "false" =>
               ~last.raised /\ last.fault.type = "network_unreachable")
        /\ (network_states[last.app] # "false" /\ auth_states[last.app] = "false" =>
               ~last.raised /\ last.fault.type = "auth_expired")

\* C1 witness: auth_expired returned although the rate limit is exceeded and
\* a kind of the table fires with probability 1.
C1_Witness ==
    /\ last.op = "simulate_error"
    /\ network_states[last.app] = "true"
    /\ auth_states[last.app] = "false"
    /\ last.fault.type = "auth_expired"
    /\ check_rate_limit(rate_limits[last.app], request_counts[last.app], now)
    /\ \E i \in 1..Len(error_profile) : error_profile[i].p = ProbOne

\* C2: with healthy flags and burst_limit = B >= 1, once B requests were
\* recorded within 10 s the next simulate_error returns the rate_limit fault,
\* and the execute_action call that follows B rapid calls returns
\* success:false with that fault and a retry_after >= 0.
C2_BurstThenRateLimit ==
    /\ (/\ last.op = "simulate_error"
        /\ rate_limits[last.app].set
        /\ rate_limits[last.app].burst_limit >= 1
        /\ Healthy(last.app)
        /\ CountWithin(last.app, BurstWindow) >= rate_limits[last.app].burst_limit)
       => ~last.raised /\ IsRateLimitFault(last.fault)
    /\ (/\ last.op = "execute_action"
        /\ last.action \in AppActions
        /\ rate_limits[last.app].burst_limit >= 1
        /\ Healthy(last.app)
        /\ CountWithin(last.app, BurstWindow) >= rate_limits[last.app].burst_limit + 1)
       => ~last.raised /\ ~last.success /\ IsRateLimitFault(last.fault)

\* C2 witness: an execute_action call that came right after burst_limit
\* rapid calls and was answered with the rate_limit fault.
C2_Witness ==
    /\ last.op = "execute_action"
    /\ rate_limits[last.app].burst_limit >= 1
    /\ CountWithin(last.app, BurstWindow) = rate_limits[last.app].burst_limit + 1
    /\ ~last.success
    /\ IsRateLimitFault(last.fault)

\* C3: for an app with requests_per_min >= 1 and burst_limit >= 1 that was
\* rate-limited and then received no call for more than 60 s, the rate check
\* does not report the limit exceeded for a fresh call (record_request, then
\* simulate_error).
C3_FreshCallAfterQuiet ==
    [][(/\ last.op = "record_request"
        /\ last'.op = "simulate_error"
        /\ last'.app = last.app
        /\ last'.app \in limited
        /\ rate_limits[last'.app].set
        /\ rate_limits[last'.app].requests_per_min >= 1
        /\ rate_limits[last'.app].burst_limit >= 1
        /\ Healthy(last'.app)
        /\ Len(recorded[last'.app]) >= 2
        /\ recorded[last'.app][Len(recorded[last'.app])] = now
        /\ \A i \in 1..(Len(recorded[last'.app]) - 1) :
               now - recorded[last'.app][i] > RateWindow)
       => ~last'.exceeded]_vars

\* C4: with healthy flags the rate check reports "exceeded" exactly when the
\* app has a rate profile and the recorded timestamps younger than 10 s
\* number >= burst_limit or those younger than 60 s number >=
\* requests_per_min; the rate_limit fault of the check is returned exactly
\* in that case.
C4_RateCheckDefinition ==
    (last.op = "simulate_error" /\ Healthy(last.app)) =>
        /\ last.exceeded <=>
              /\ rate_limits[last.app].set
              /\ \/ CountWithin(last.app, BurstWindow) >= rate_limits[last.app].burst_limit
                 \/ CountWithin(last.app, RateWindow) >= rate_limits[last.app].requests_per_min
        /\ (last.fault.message = "Rate limit exceeded") <=> (last.exceeded /\ ~last.raised)

\* C4 witness: the limit is reported exceeded through requests_per_min alone,
\* while a timestamp that is 60 s old or older is on record and not counted.
C4_Witness ==
    /\ last.op = "simulate_error"
    /\ Healthy(last.app)
    /\ last.exceeded
    /\ CountWithin(last.app, BurstWindow) < rate_limits[last.app].burst_limit
    /\ \E i \in 1..Len(recorded[last.app]) : now - recorded[last.app][i] >= RateWindow

\* the oldest recorded timestamp of app a that is younger than 60 s
OldestLive(a) ==
    CHOOSE m \in {recorded[a][i] : i \in 1..Len(recorded[a])} :
        /\ now - m < RateWindow
        /\ \A i \in 1..Len(recorded[a]) :
               now - recorded[a][i] < RateWindow => m <= recorded[a][i]

\* C5: whenever the rate check reports the limit exceeded, simulate_error
\* returns (it does not raise) a retry_after that is the whole seconds left
\* until the oldest non-expired timestamp leaves the 60 s window, floored at
\* 0, hence within 0..60.
C5_RetryAfterDefined ==
    (last.op = "simulate_error" /\ last.exceeded) =>
        /\ ~last.raised
        /\ \E i \in 1..Len(recorded[last.app]) : now - recorded[last.app][i] < RateWindow
        /\ last.fault.retry_after \in 0..RateWindow
        /\ last.fault.retry_after \in
              {Max(0, RateWindow - (now - OldestLive(last.app)) - late) : late \in {0, 1}}

\* C6: execute_action never raises; every failure path ends in an envelope
\* with success:false and an error.
C6_NoEscape ==
    last.op = "execute_action" =>
        /\ ~last.raised
        /\ last.success <=> (last.fault = NoFault)

\* C7: read_object with the id that create_object returned yields an object
\* whose fields are the input fields plus id (the returned id) and
\* created_at, without updated_at.
C7_CreateThenRead ==
    last.op = "create_object" =>
        LET o == read_object(app_states, last.app, last.type, last.id)
        IN  /\ o # NoObj
            /\ o["id"] = last.id
            /\ o["created_at"] # Absent
            /\ o["updated_at"] = Absent
            /\ \A f \in FieldNames \ {"id", "created_at", "updated_at"} :
                   o[f] = last.data[f]

\* C8: the ids of the objects of one collection are pairwise different.
C8_UniqueIds ==
    \A a \in Apps, t \in Types :
        \A i, j \in 1..Len(Objects(app_states, a, t)) :
            i # j => Objects(app_states, a, t)[i]["id"] # Objects(app_states, a, t)[j]["id"]

\* C9: update_object leaves the id of every stored object as it was.
C9_IdImmutable ==
    [][(last'.op = "update_object" /\ last'.ok) =>
          \A j \in 1..Len(Objects(app_states, last'.app, last'.type)) :
              Objects(app_states', last'.app, last'.type)[j]["id"] =
                  Objects(app_states, last'.app, last'.type)[j]["id"]]_vars

\* C10: a successful update_object changes one object that carried the id:
\* the fields named in the updates take the new values, updated_at is
\* stamped, its other fields stay; every other object, the order of the
\* collection and every other collection stay as they were.
C10_UpdateFrame ==
    [][(last'.op = "update_object" /\ last'.ok) =>
          LET old == Objects(app_states, last'.app, last'.type)
              new == Objects(app_states', last'.app, last'.type)
              u == last'.data
          IN  /\ Len(new) = Len(old)
              /\ \E i \in 1..Len(old) :
                    /\ old[i]["id"] = last'.id
                    /\ new[i]["updated_at"] = now
                    /\ \A f \in FieldNames \ {"updated_at"} :
                          new[i][f] = IF u[f] # Absent THEN u[f] ELSE old[i][f]
                    /\ \A j \in 1..Len(old) : j # i => new[j] = old[j]
              /\ \A a \in Apps, t \in Types :
                    (a # last'.app \/ t # last'.type) =>
                        app_states'[a].colls[t] = app_states[a].colls[t]
              /\ \A a \in Apps : app_states'[a].present = app_states[a].present]_vars

\* C10 witness: an update that named a field, in a collection of two
\* objects of which one was never updated.
C10_Witness ==
    /\ last.op = "update_object"
    /\ last.ok
    /\ last.data["title"] # Absent
    /\ Len(Objects(app_states, last.app, last.type)) = 2
    /\ \E i, j \in 1..2 :
          /\ Objects(app_states, last.app, last.type)[i]["updated_at"] = Absent
          /\ Objects(app_states, last.app, last.type)[j]["updated_at"] # Absent
          /\ Objects(app_states, last.app, last.type)[j]["title"] = last.data["title"]

\* C11: after delete_object returned True, read_object with the same app,
\* type and id returns None (no operation has changed the state since).
C11_DeleteThenRead ==
    (last.op = "delete_object" /\ last.ok) =>
        read_object(app_states, last.app, last.type, last.id) = NoObj

\* an object of the collection carries the id
HasId(st, a, t, id) ==
    \E i \in 1..Len(Objects(st, a, t)) : Objects(st, a, t)[i]["id"] = id

\* C12: read_object, update_object and delete_object on an id that no
\* object of the collection carries (the app or the type may be unknown)
\* return None / False without raising, fire no event, and leave every
\* collection and the uuids handed out as they were.
C12_NotFoundIsInert ==
    [][(/\ last'.op \in {"read_object", "update_object", "delete_object"}
        /\ ~HasId(app_states, last'.app, last'.type, last'.id)) =>
          /\ ~last'.ok
          /\ ~last'.raised
          /\ last'.obj = NoObj
          /\ last'.fired = << >>
          /\ last'.invoked = << >>
          /\ app_states' = app_states
          /\ next_uuid' = next_uuid]_vars

\* C12 witness: update_object reported not-found for an id of the caller's
\* own while the collection holds an object.
C12_Witness ==
    /\ last.op = "update_object"
    /\ ~last.ok
    /\ last.id = ForeignId
    /\ Len(Objects(app_states, last.app, last.type)) >= 1
    /\ ~HasId(app_states, last.app, last.type, ForeignId)

\* C13: a client that changes a value read_object or get_app_state
\* returned (a field of the object, an element or the length of a list, a
\* key of the mapping) changes no collection of the store.
C13_ReturnedValuesAreCopies ==
    [][last'.op \in {"mutate_returned", "mutate_read_result"} =>
          \A a \in Apps, t \in Types :
              app_states'[a].colls[t] = app_states[a].colls[t]]_vars

\* the event each state-changing operation is to propagate
EventOf(op) ==
    CASE op = "create_object" -> "create"
      [] op = "update_object" -> "update"
      [] op = "delete_object" -> "delete"
      [] op = "set_app_state" -> "state_change"
      [] op = "update_app_state" -> "state_update"
      [] op = "create_shared_object" -> "shared_object_created"
      [] OTHER -> "cleared"

\* C14: create_object, a successful update_object or delete_object,
\* set_app_state, update_app_state, create_shared_object and a
\* clear_app_state that dropped collections each propagate exactly one
\* event, of the operation's kind, once to every callback under its key,
\* and the event is propagated when the change is in place.
C14_OneEventPerMutation ==
    (/\ last.op \in {"create_object", "update_object", "delete_object",
                     "set_app_state", "update_app_state", "create_shared_object",
                     "clear_app_state"}
     /\ last.ok) =>
        /\ Len(last.fired) = 1
        /\ last.fired[1].app = last.app
        /\ last.fired[1].type = EventOf(last.op)
        /\ Len(last.invoked) = Len(event_listeners[<<last.app, EventOf(last.op)>>])
        /\ last.app \in Apps =>
              last.fired[1].size = Len(Objects(app_states, last.app, last.type))

\* C15: a callback that raises does not end the operation: the operation
\* returns its value, its change is in place, and every callback under the
\* key has been called, in order.
C15_ListenerFailureIsSwallowed ==
    last.fired # << >> =>
        LET l == event_listeners[<<last.fired[1].app, last.fired[1].type>>]
        IN  /\ ~last.raised
            /\ last.ok
            /\ Len(last.invoked) = Len(l)
            /\ \A i \in 1..Len(l) :
                  /\ last.invoked[i].cb = l[i]
                  /\ last.invoked[i].caught <=> (l[i] = "raises")
            /\ last.app \in Apps =>
                  last.fired[1].size = Len(Objects(app_states, last.app, last.type))

\* C15 witness: create_object with two callbacks under the key, of which
\* the first raised and the second was called; the object is stored.
C15_Witness ==
    /\ last.op = "create_object"
    /\ Len(last.invoked) = 2
    /\ last.invoked[1].cb = "raises"
    /\ last.invoked[2].cb = "ok"
    /\ HasId(app_states, last.app, last.type, last.id)

\* C16: after set_chaos_mode(m) the table holds the kinds of the baseline,
\* each with min(0.95, baseline * m), whatever set_chaos_mode and
\* update_error_profile calls came before; for m in [0, 2] every entry lies
\* in [0, 0.95].
C16_ChaosReplacesTable ==
    last.op = "set_chaos_mode" =>
        /\ Len(error_profile) = Len(base_profile)
        /\ \A i \in 1..Len(base_profile) :
              /\ error_profile[i].kind = base_profile[i].kind
              /\ error_profile[i].p =
                    Min(ProbCap, (base_profile[i].p * last.level) \div 100)
              /\ last.level \in 0..200 =>
                    error_profile[i].p >= 0 /\ error_profile[i].p <= ProbCap

\* C16 witness: set_chaos_mode(2.0) was the last call and the table holds
\* twice the baseline.
C16_Witness ==
    /\ last.op = "set_chaos_mode"
    /\ last.level = 200
    /\ \E i \in 1..Len(error_profile) :
          error_profile[i].kind = "invalid_input" /\ error_profile[i].p = 2000

\* the recorded requests of app a stay below both limits of its profile
BelowLimits(a) ==
    \/ ~rate_limits[a].set
    \/ /\ CountWithin(a, BurstWindow) < rate_limits[a].burst_limit
       /\ CountWithin(a, RateWindow) < rate_limits[a].requests_per_min

\* C17: with the table of set_chaos_mode(0.0) in place, simulate_error on an
\* app with healthy flags and a request log below both limits returns None,
\* whatever the random draws are.
C17_ZeroChaosNoFault ==
    (/\ last.op = "simulate_error"
     /\ error_profile = ScaledProfile(0)
     /\ Healthy(last.app)
     /\ BelowLimits(last.app)) =>
        ~last.raised /\ last.fault = NoFault

\* C17 witness: simulate_error returned None under the zero table for an app
\* with a rate profile and a recorded request.
C17_Witness ==
    /\ last.op = "simulate_error"
    /\ error_profile = ScaledProfile(0)
    /\ Healthy(last.app)
    /\ rate_limits[last.app].set
    /\ recorded[last.app] # << >>
    /\ BelowLimits(last.app)
    /\ last.fault = NoFault

\* C18: in every result of execute_action an error is present exactly when
\* success is false, and every error carries the keys type, message,
\* details and retry_after.
C18_EnvelopeShape ==
    (last.op = "execute_action" /\ ~last.raised) =>
        /\ (last.fault # NoFault) <=> ~last.success
        /\ last.fault # NoFault => last.fault.details /\ last.fault.retry_key

\* C19: when simulate_error returns a fault inside execute_action, the
\* result is success false with that fault (not the schema_error of the
\* validation), and the collections and the uuids handed out are as before
\* the call.
C19_FaultStopsCall ==
    [][(last'.op = "execute_action" /\ last'.decided # NoFault) =>
          /\ ~last'.success
          /\ last'.fault = last'.decided
          /\ app_states' = app_states
          /\ next_uuid' = next_uuid]_vars

\* C19 witness: create_task ended with the fault simulate_error returned
\* while the store holds an object of an earlier call.
C19_Witness ==
    /\ last.op = "execute_action"
    /\ last.action = "create_task"
    /\ last.decided # NoFault
    /\ last.fault = last.decided
    /\ \E a \in Apps, t \in Types : Len(Objects(app_states, a, t)) >= 1

\* C20: execute_action with a name the app does not define returns success
\* false with error type action_not_found, and the request log, the rate
\* profile and the two flags of every app are as before the call.
C20_NotFoundLeavesEngine ==
    [][(last'.op = "execute_action" /\ last'.action \notin AppActions) =>
          /\ ~last'.success
          /\ last'.fault.type = "action_not_found"
          /\ request_counts' = request_counts
          /\ recorded' = recorded
          /\ rate_limits' = rate_limits
          /\ auth_states' = auth_states
          /\ network_states' = network_states]_vars

\* C20 witness: action_not_found was returned for an app whose log holds a
\* request.
C20_Witness ==
    /\ last.op = "execute_action"
    /\ last.action \notin AppActions
    /\ last.fault.type = "action_not_found"
    /\ request_counts[last.app] # << >>

\* the call of execute_action that ran last got past simulate_error
Admitted == last.op = "execute_action" /\ ~last.raised /\ last.decided = NoFault

\* C21: an admitted create action with inputs the schema accepts returns
\* success with status "success" and with the id under which the new object
\* is stored: read_object with the id of the result returns the new object.
C21_CreateResultReadable ==
    (Admitted /\ last.action = "create_task" /\ last.ok) =>
        LET objs == Objects(app_states, last.app, "tasks")
        IN  /\ last.success
            /\ last.status = "success"
            /\ objs # << >>
            /\ objs[Len(objs)]["id"] = last.obj["id"]
            /\ read_object(app_states, last.app, "tasks", last.obj["id"]) =
                   objs[Len(objs)]

\* the inputs of an update, delete or get action name no object: they have
\* no id, or no object of the collection carries it
NamesNoObject(st, a, id) == id = Absent \/ ~HasId(st, a, "tasks", id)

C27_RateLimitHasRetryAfter ==
    (last.op = "simulate_error" /\ ~last.raised /\ last.fault.type = "rate_limit") =>
        /\ last.fault.retry_key
        /\ last.fault.retry_after # None
        /\ last.fault.retry_after >= 0

\* C29: execute_action for an action the app defines appends one timestamp
\* to the app's request log when it starts, before simulate_error runs, and
\* none afterwards, whatever simulate_error decides.
C29_OneRecordBeforeDecision ==
    [][/\ last'.op = "execute_action_sleep" =>
             /\ recorded'[last'.app] = Append(recorded[last'.app], now)
             /\ request_counts'[last'.app] = Append(request_counts[last'.app], now)
       /\ (last'.op = "execute_action" /\ last'.action \in AppActions) =>
             /\ call.pc = "sleeping"
             /\ call.app = last'.app
             /\ recorded' = recorded
             /\ recorded[last'.app] # << >>
             /\ last.op = "execute_action_sleep" =>
                   recorded[last'.app][Len(recorded[last'.app])] = now]_vars

\* C29 witness: a call rejected by the rate check whose own timestamp is the
\* second of the app's log.
C29_Witness ==
    /\ last.op = "execute_action"
    /\ last.decided.type = "rate_limit"
    /\ last.exceeded
    /\ Len(recorded[last.app]) >= 2
    /\ Len(request_counts[last.app]) >= 2

\* the entries of the table whose draw fires
Firing(profile, draws) == {i \in 1..Len(profile) : draws[i] < profile[i].p}

\* C30: when no deterministic fault applies, simulate_error goes through the
\* table in its order with one draw per entry until a draw fires and returns
\* the fault of the first entry that fires, None when none fires; the result
\* is determined by the table and the draws, and the results over all draws
\* are the results simulate_error can produce.
C30_WalkInOrder ==
    last.op = "simulate_error_draws" =>
        LET F == Firing(error_profile, last.draws)
        IN  /\ ~last.raised
            /\ IF F = {}
                 THEN last.fault = NoFault /\ last.used = Len(error_profile)
                 ELSE LET k == CHOOSE i \in F : \A j \in F : i <= j
                      IN  /\ last.used = k
                          /\ last.fault.type = error_profile[k].kind
                          /\ last.fault = _generate_error(error_profile[k].kind)
            /\ {WalkWith(error_profile, d, 1).res : d \in DrawSeqs(error_profile)} =
                   Walk(error_profile, 1)

\* C30 witness: the first entry did not fire, a later one did, and an entry
\* after that one would have fired as well.
C30_Witness ==
    /\ last.op = "simulate_error_draws"
    /\ last.used > 1
    /\ last.fault # NoFault
    /\ \E j \in (last.used + 1)..Len(error_profile) :
          last.draws[j] < error_profile[j].p

\* C26: clear_app_state drops every collection of the app, so that a read of
\* any id of that app finds nothing; the collections of the other apps, the
\* shared objects and the subscriptions stay as they were.
C26_ClearIsAppLocal ==
    [][last'.op = "clear_app_state" =>
          LET a == last'.app
          IN  /\ ~app_states'[a].present
              /\ \A t \in Types :
                    /\ ~app_states'[a].colls[t].present
                    /\ \A id \in KnownIds : read_object(app_states', a, t, id) = NoObj
              /\ \A b \in Apps \ {a} : app_states'[b] = app_states[b]
              /\ shared_objects' = shared_objects
              /\ event_listeners' = event_listeners]_vars

\* C26 witness: collections of one app were dropped while another app holds
\* an object, a shared object is stored and a callback is subscribed.
C26_Witness ==
    /\ last.op = "clear_app_state"
    /\ last.ok
    /\ \E b \in Apps \ {last.app}, t \in Types : Len(Objects(app_states, b, t)) > 0
    /\ \E k \in SharedKeys : shared_objects[k] # Absent
    /\ Subscribed > 0

\* what simulate_error can return for app b in the current state
DecideOutcome(b) ==
    simulate_error(network_states[b], auth_states[b], rate_limits[b],
                   request_counts[b], error_profile, now)

\* what simulate_error reads when it is called for app b; DecideOutcome(b)
\* is a function of these values
DecideInputs(b) ==
    <<network_states[b], auth_states[b], rate_limits[b], request_counts[b],
      error_profile, now>>

\* the operations C28 names, by the name they leave in last.op
StoreMutations ==
    {"create_object", "update_object", "delete_object", "set_app_state",
     "update_app_state", "clear_app_state", "execute_action_sleep", "execute_action"}
RateOperations ==
    {"record_request", "configure_rate_limit", "set_auth_state", "set_network_state"}

\* C28: a store mutation or an execute_action on one app leaves every
\* collection of every other app as it was, and record_request,
\* configure_rate_limit, set_auth_state and set_network_state on one app
\* leave what simulate_error returns for every other app as it was.
C28_AppScoped ==
    [][\A b \in Apps \ {last'.app} :
          /\ last'.op \in StoreMutations => app_states'[b].colls = app_states[b].colls
          /\ last'.op \in RateOperations =>
                \/ DecideInputs(b)' = DecideInputs(b)
                \/ DecideOutcome(b)' = DecideOutcome(b)]_vars

\* C28 witness: a request of app B was recorded while both apps hold an
\* object and app A, which runs actions, is at its burst limit.
C28_Witness ==
    /\ last.op = "record_request"
    /\ last.app \in Others
    /\ \A a \in Apps : Len(Objects(app_states, a, "tasks")) > 0
    /\ \E a \in Callers :
          /\ rate_limits[a].set
          /\ Len(request_counts[a]) = 1
          /\ \A r \in DecideOutcome(a) : r.exceeded

\* how often the timestamp v is in the list
TimesIn(log, v) == Cardinality({i \in 1..Len(log) : log[i] = v})

\* C23: with record_request and check_rate_limit called from concurrent
\* threads, every timestamp a completed record_request appended is in the
\* app's log while it is younger than 60 s, and the log holds nothing but
\* timestamps that were recorded.
C23_NoLostRequest ==
    \A a \in Apps, v \in ClockValues :
        /\ now - v < RateWindow => TimesIn(recorded[a], v) <= TimesIn(request_counts[a], v)
        /\ TimesIn(request_counts[a], v) <= TimesIn(recorded[a], v)

\* C24: with the store called from concurrent threads, at most one thread is
\* inside an operation, every operation returns what it returns when it
\* runs in one piece at the moment it takes the lock, and when no operation
\* is under way the store is in the state these operations leave in that
\* order.
C24_StoreCallsAreAtomic ==
    /\ Cardinality({th \in Threads : thr[th].pc # "idle"}) <= 1
    /\ lock.owner = 0 => app_states = shadow
    /\ last.op = "store_call" =>
          /\ last.ok = last.want.ok
          /\ last.obj = last.want.obj
          /\ last.view = last.want.view

\* C24 witness: the second thread's update_object returned true after the
\* store had been changed by the first thread's operation.
C24_Witness ==
    /\ last.op = "store_call"
    /\ last.by = 2
    /\ last.action = "update_object"
    /\ last.ok
    /\ Len(Objects(app_states, last.app, last.type)) = 1
    /\ next_uuid > 2

\* C25: a thread whose callback calls the store from inside the dispatch
\* holds the lock and can take it again, and while the callback is in the
\* store the thread holds the lock twice.
C25_ReentryDoesNotBlock ==
    \A th \in Threads :
        /\ thr[th].pc = "dispatching" => lock.owner = th /\ CanAcquire(th)
        /\ thr[th].pc = "nested" => lock = [owner |-> th, count |-> 2]

\* C25 witness: the callback's read_object completed and found the object,
\* and the update_object that propagated the event returned after it.
C25_Witness ==
    /\ last.op = "store_call"
    /\ last.nested
    /\ last.action = "update_object"
    /\ last.ok
    /\ lock = NoLock

\* C31: simulate_error returns network_unreachable only for an app whose
\* network flag is unavailable and auth_expired only for an app that is not
\* authenticated, at every chaos level and for every sequence of draws.
C31_OutageFaultsNeedFlags ==
    last.op \in {"simulate_error", "simulate_error_draws"} /\ ~last.raised =>
        /\ last.fault.type = "network_unreachable" => network_states[last.app] = "false"
        /\ last.fault.type = "auth_expired" => auth_states[last.app] = "false"

\* the classes in the order of the claim, and the keywords of each
ClassOrder == <<"create", "update", "delete", "get", "list">>
ClassWords(c) ==
    CASE c = "create" -> {"create", "add", "send"}
      [] c = "update" -> {"update", "edit"}
      [] c = "delete" -> {"delete", "remove"}
      [] c = "get" -> {"get", "fetch"}
      [] c = "list" -> {"list"}

\* the classes with a keyword that is a substring of the name
ClassesOf(name) ==
    {i \in 1..Len(ClassOrder) :
        \E w \in ClassWords(ClassOrder[i]) : Contains(Spelling(name), Spelling(w))}

\* the earliest class of the order with a keyword in the name
ExpectedClass(name) ==
    IF ClassesOf(name) = {} THEN "default"
    ELSE ClassOrder[CHOOSE i \in ClassesOf(name) : \A j \in ClassesOf(name) : i <= j]

\* C32: an action that succeeds behaves as the earliest class, in the order
\* create/add/send, update/edit, delete/remove, get/fetch, list, whose
\* keyword is a substring of its name: create stores a new object, update
\* stamps the object named, delete removes it, get leaves the store alone.
C32_EarliestClassWins ==
    [][(last'.op = "execute_action" /\ last'.success) =>
          LET name == last'.action
              c == ExpectedClass(name)
              objs == Objects(app_states, last'.app, "tasks")
              objs2 == Objects(app_states', last'.app, "tasks")
          IN  /\ Keywords(name) =
                    {w \in UNION {ClassWords(ClassOrder[i]) : i \in 1..Len(ClassOrder)} :
                        Contains(Spelling(name), Spelling(w))}
              /\ c = "create" => last'.status = "success" /\ Len(objs2) = Len(objs) + 1
              /\ c = "update" =>
                    /\ last'.status = ""
                    /\ Len(objs2) = Len(objs)
                    /\ objs2[FindFirst(objs2, last'.id)]["updated_at"] = now
              /\ c = "delete" => last'.status = "deleted" /\ Len(objs2) = Len(objs) - 1
              /\ c = "get" => last'.status = "" /\ app_states' = app_states
              /\ c = "list" => last'.status = "listed" /\ app_states' = app_states
              /\ c = "default" => last'.status = "executed" /\ app_states' = app_states]_vars

\* C32 witness: an action whose name holds "update" and "get" succeeded on an
\* object that had not been updated before.
C32_Witness ==
    /\ last.op = "execute_action"
    /\ last.success
    /\ last.action = "get_updated_task"
    /\ Cardinality(ClassesOf(last.action)) = 2
    /\ last.obj["updated_at"] = now

\* C33: a list action that is admitted returns as results the first N
\* objects of the collection in insertion order, N being the limit of the
\* inputs and 50 without one, and as count the size of the collection.
C33_ListReturnsFirstN ==
    (last.op = "execute_action" /\ last.success /\ last.status = "listed") =>
        LET objs == Objects(app_states, last.app, "tasks")
            N == IF last.given THEN last.limit ELSE 50
        IN  /\ last.results = SubSeq(objs, 1, Min(N, Len(objs)))
            /\ last.count = Len(objs)

\* C34: configure_rate_limit only sets the rate profile of its app: the
\* request logs and everything else the simulator holds stay as they were,
\* and configuring a second time with the same arguments changes nothing
\* the first time has not changed.
C34_ConfigureIsIdempotent ==
    [][/\ \A a \in Apps, l \in LimitPairs :
             LET once == Configure(rate_limits, request_counts, a, l[1], l[2])
             IN  Configure(once.limits, once.counts, a, l[1], l[2]) = once
       /\ last'.op = "configure_rate_limit" =>
             /\ request_counts' = request_counts
             /\ rate_limits'[last'.app].set
             /\ \A b \in Apps \ {last'.app} : rate_limits'[b] = rate_limits[b]
             /\ UNCHANGED <<trigVars, error_profile, auth_states, network_states>>]_vars

\* C34 witness: an app that had a profile and requests in its log was
\* configured again.
C34_Witness ==
    /\ last.op = "configure_rate_limit"
    /\ Len(request_counts[last.app]) > 0
    /\ Len(recorded[last.app]) = Len(request_counts[last.app])
    /\ last.app \in limited

\* The route of the MCP server builds a runtime for every request
\* (server.py:86-97) on the one simulator of the process; tests and
\* operators switch the flags of an app in between.
NextOutage ==
    \/ \E t \in RunClock : Tick(t)
    \/ set_chaos_mode(0)
    \/ \E a \in Callers, v \in {"true", "false"} : set_auth_state(a, v)
    \/ \E a \in Callers, v \in {"true", "false"} : set_network_state(a, v)
    \/ \E a \in Callers : NewRuntime(a, RoomyProfile[1], RoomyProfile[2])
    \/ \E a \in Callers : ExecBegin(a, "create_task")
    \/ \E d \in PlainPayloads : ExecEnd(d)

SpecOutage == Init /\ [][NextOutage]_vars

\* C35: a flag that set_network_state or set_auth_state has put to false
\* stays false over every step that is not a call of the same setter for
\* the same app, the construction of a runtime for the app included.
C35_OutageOutlivesRuntime ==
    [][\A a \in Apps :
          /\ (network_states[a] = "false"
                /\ ~(last'.op = "set_network_state" /\ last'.app = a))
                => network_states'[a] = "false"
          /\ (auth_states[a] = "false"
                /\ ~(last'.op = "set_auth_state" /\ last'.app = a))
                => auth_states'[a] = "false"]_vars

\* C36: when execute_action has returned, the mapping the caller passed
\* holds under "id" what it held when the call was made.
C36_InputsAreNotMutated ==
    last.op = "execute_action" => last.kept = last.id

\* Rapid calls through one runtime: clock readings less than 10 s apart and
\* one beyond the burst window, and rate profiles whose per-minute limit
\* the calls of a run do not reach, so that the burst limit decides.
BurstClock == {Step, BurstWindow - 1, BurstWindow + Step}
BurstProfiles == {<<MaxLog + 2, b>> : b \in 1..MaxLimit}

NextBurst ==
    \/ \E t \in BurstClock : Tick(t)
    \/ set_chaos_mode(0)
    \/ \E a \in Callers, l \in BurstProfiles : NewRuntime(a, l[1], l[2])
    \/ \E a \in Callers : ExecBegin(a, "create_task")
    \/ \E d \in PlainPayloads : ExecEnd(d)

SpecBurst == Init /\ [][NextBurst]_vars

\* the requests of app a recorded before its latest one that are younger
\* than w seconds
EarlierWithin(a, w) ==
    Cardinality({i \in 1..(Len(recorded[a]) - 1) : now - recorded[a][i] < w})

\* C37: an execute_action call of a listed action that comes back after less
\* than 10 s with healthy flags is answered with the rate_limit fault
\* whenever at least burst_limit - 1 earlier requests of its app lie in the
\* trailing 10 s: the call's own record is counted.  With burst_limit = 1
\* no such call succeeds.
C37_CallCountsItself ==
    (/\ last.op = "execute_action"
     /\ last.action \in KnownActions
     /\ Healthy(last.app)
     /\ now - recorded[last.app][Len(recorded[last.app])] < BurstWindow
     /\ EarlierWithin(last.app, BurstWindow) >= rate_limits[last.app].burst_limit - 1)
    => /\ ~last.raised
       /\ ~last.success
       /\ last.fault.type = "rate_limit"

\* C37 witness: the first call of an app with burst_limit = 1, back after
\* some seconds with no earlier request in the window, was rejected with
\* rate_limit.
C37_Witness ==
    /\ last.op = "execute_action"
    /\ Healthy(last.app)
    /\ last.fault.type = "rate_limit"
    /\ now - recorded[last.app][Len(recorded[last.app])] < BurstWindow
    /\ now > recorded[last.app][Len(recorded[last.app])]
    /\ EarlierWithin(last.app, BurstWindow) = rate_limits[last.app].burst_limit - 1
    /\ rate_limits[last.app].burst_limit = 1

\* Calls through one runtime that succeed and calls that fail in each of
\* the three ways execute_action itself reports: an action the app does not
\* list, inputs the schema rejects, an implementation that raises.
NextFail ==
    \/ \E t \in RunClock : Tick(t)
    \/ \E a \in Callers : NewRuntime(a, RoomyProfile[1], RoomyProfile[2])
    \/ set_chaos_mode(0)
    \/ \E a \in Callers : ExecNotFound(a, "nope")
    \/ \E a \in Callers, name \in CrudActions : ExecBegin(a, name)
    \/ \E d \in Inputs : ExecEnd(d)

SpecFail == Init /\ [][NextFail]_vars

\* C38: an execute_action call answered with action_not_found, schema_error
\* or execution_error leaves every collection of the store and the uuids
\* handed out as they were, and no store event was fired by it.
C38_FailedCallIsInert ==
    [][(/\ last'.op = "execute_action"
        /\ ~last'.success
        /\ last'.fault.type \in {"action_not_found", "schema_error", "execution_error"})
       => /\ app_states' = app_states
          /\ next_uuid' = next_uuid
          /\ last'.fired = << >>
          /\ last'.invoked = << >>]_vars

\* C38 witness: an update naming the id of an object that was deleted came
\* back as execution_error while the store holds another object.
C38_Witness ==
    /\ last.op = "execute_action"
    /\ last.action = "update_task"
    /\ last.fault.type = "execution_error"
    /\ last.id # Absent
    /\ ~HasId(app_states, last.app, "tasks", last.id)
    /\ Len(Objects(app_states, last.app, "tasks")) >= 1

\* ------------------------------------------------------------ TriggerSystem
\* Triggers are registered without a condition and with callbacks that
\* return at once; one start_polling coroutine runs at a time.
TrigTypes == {"polling", "webhook", "scheduled"}
Frequencies == {None, Step}
TrigClock == {1, 1 + Step}

\* Trigger.__init__, line 28-36
Trigger(id, ty, freq) ==
    [id |-> id, type |-> ty,
     frequency_seconds |-> IF freq = None THEN 60 ELSE freq,
     enabled |-> TRUE, last_fired |-> None, fire_count |-> 0]

\* the place of the key in the dictionary, 0 when it is not a key
TriggerIndex(trs, id) ==
    IF \E i \in 1..Len(trs) : trs[i].id = id
      THEN CHOOSE i \in 1..Len(trs) : trs[i].id = id
      ELSE 0

\* f"{app_name}_{trigger_type.value}_{len(self.triggers)}", line 73
TriggerId(a, ty, trs) == <<a, ty, Len(trs)>>

\* self.triggers[trigger_id] = trigger, line 82: a key the dictionary holds
\* keeps its place and gets the new value
Registered(trs, tr) ==
    IF TriggerIndex(trs, tr.id) # 0
      THEN [trs EXCEPT ![TriggerIndex(trs, tr.id)] = tr]
      ELSE Append(trs, tr)

register_trigger(a, ty, freq) ==
    LET id == TriggerId(a, ty, triggers)
    IN  /\ Len(triggers) < MaxTrig
        /\ triggers' = Registered(triggers, Trigger(id, ty, freq))
        /\ webhook_endpoints' =
              IF ty = "webhook" THEN webhook_endpoints \cup {id} ELSE webhook_endpoints
        /\ last' = [NoLast EXCEPT !.op = "register_trigger", !.app = a, !.trig = id]
        /\ UNCHANGED <<now, simVars, storeVars, event_listeners, shared_objects,
                       snapshot, lockVars, running, poll, call>>

unregister_trigger(id) ==
    /\ triggers' = SelectSeq(triggers, LAMBDA tr : tr.id # id)
    /\ webhook_endpoints' = webhook_endpoints \ {id}
    /\ last' = [NoLast EXCEPT !.op = "unregister_trigger", !.trig = id]
    /\ UNCHANGED <<now, simVars, storeVars, event_listeners, shared_objects,
                   snapshot, lockVars, running, poll, call>>

\* enable_trigger and disable_trigger, line 97-105
set_trigger_enabled(id, v) ==
    /\ triggers' = [i \in 1..Len(triggers) |->
                       IF triggers[i].id = id
                         THEN [triggers[i] EXCEPT !.enabled = v]
                         ELSE triggers[i]]
    /\ last' = [NoLast EXCEPT !.op = IF v THEN "enable_trigger" ELSE "disable_trigger",
                              !.trig = id]
    /\ UNCHANGED <<now, simVars, storeVars, event_listeners, shared_objects,
                   snapshot, lockVars, webhook_endpoints, running, poll, call>>

\* Trigger.fire, line 38-52, of an enabled trigger without a condition
Fire(tr, t) == [tr EXCEPT !.last_fired = t, !.fire_count = @ + 1]

\* the polling loop fires the trigger, line 114-128
Due(tr, t) ==
    /\ tr.enabled
    /\ tr.type \in {"polling", "scheduled"}
    /\ tr.last_fired = None \/ t - tr.last_fired >= tr.frequency_seconds

\* start_polling up to its first await, line 109-111
start_polling ==
    /\ poll.pc = "idle"
    /\ running' = TRUE
    /\ poll' = [pc |-> "sleeping", since |-> now]
    /\ last' = [NoLast EXCEPT !.op = "start_polling"]
    /\ UNCHANGED <<now, simVars, storeVars, event_listeners, shared_objects,
                   snapshot, lockVars, triggers, webhook_endpoints, call>>

\* start_polling from the end of asyncio.sleep(1) to the next await or to
\* its return, line 111-130: the pass over the triggers, then the loop test
PollWake ==
    /\ poll.pc = "sleeping"
    /\ now >= poll.since + 1
    /\ triggers' = [i \in 1..Len(triggers) |->
                       IF Due(triggers[i], now) THEN Fire(triggers[i], now)
                                                ELSE triggers[i]]
    /\ poll' = IF running THEN [pc |-> "sleeping", since |-> now] ELSE NoPoll
    /\ last' = [NoLast EXCEPT !.op = "poll_tick",
                   !.calls = Cardinality({i \in 1..Len(triggers) :
                                             Due(triggers[i], now)})]
    /\ UNCHANGED <<now, simVars, storeVars, event_listeners, shared_objects,
                   snapshot, lockVars, webhook_endpoints, running, call>>

stop_polling ==
    /\ running' = FALSE
    /\ last' = [NoLast EXCEPT !.op = "stop_polling"]
    /\ UNCHANGED <<now, simVars, storeVars, event_listeners, shared_objects,
                   snapshot, lockVars, triggers, webhook_endpoints, poll, call>>

\* an id no registration hands out
UnknownTrigger == <<"A", "polling", MaxTrig>>

\* Registrations coming and going
NextTriggers ==
    \/ \E a \in Callers, ty \in TrigTypes, f \in Frequencies : register_trigger(a, ty, f)
    \/ \E i \in 1..Len(triggers) : unregister_trigger(triggers[i].id)
    \/ unregister_trigger(UnknownTrigger)
    \/ \E i \in 1..Len(triggers), v \in BOOLEAN : set_trigger_enabled(triggers[i].id, v)

SpecTriggers == Init /\ [][NextTriggers]_vars

\* The polling loop over triggers registered with a frequency of Step
\* seconds, started and stopped while the clock advances
NextPolling ==
    \/ \E t \in TrigClock : Tick(t)
    \/ \E a \in Callers, ty \in TrigTypes : register_trigger(a, ty, Step)
    \/ \E i \in 1..Len(triggers) : set_trigger_enabled(triggers[i].id, FALSE)
    \/ start_polling
    \/ PollWake
    \/ stop_polling

SpecPolling == Init /\ [][NextPolling]_vars

\* C39: the id register_trigger returns is the id of no trigger registered
\* when it is called, and the registration adds a trigger and replaces none.
C39_FreshTriggerId ==
    [][last'.op = "register_trigger" =>
          /\ \A i \in 1..Len(triggers) : triggers[i].id # last'.trig
          /\ Len(triggers') = Len(triggers) + 1]_vars

\* C40: a pass of the polling loop made when stop_polling has put running
\* to False invokes no trigger callback.
C40_NoCallbackAfterStop ==
    [][(last'.op = "poll_tick" /\ ~running) => last'.calls = 0]_vars

====
